---- MODULE Spec2Model ----
(***************************************************************************)
(* Model of the cyclers emitted by crates/code_generation/src/cyclers.rs:  *)
(* the per-cycler thread loop (start), one iteration (cycle) with its      *)
(* required-input gating, error and recording paths, and the hand-off      *)
(* structures the iteration drives (Writer/Reader slot buffer,             *)
(* Producer/Consumer queue, PerceptionDatabases, HistoricDatabases).       *)
(*                                                                         *)
(* Modelled topology: one RealTime cycler with instance A, one Perception  *)
(* cycler definition with the two instances V and W.                       *)
(* The framework crate (Writer, Reader, Producer, Consumer, the two        *)
(* database timelines) is not part of the sources at hand; its operations  *)
(* are modelled from the written specification and are marked so in the    *)
(* model map.                                                              *)
(*                                                                         *)
(* Three pieces of node code are modelled on their own, outside a cycler:  *)
(* the walking engine's Mode::Starting transitions, the node               *)
(* RefereePoseDetectionFilter, and non_maximum_suppression of the pose     *)
(* detection.                                                              *)
(***************************************************************************)
EXTENDS Integers, Sequences, FiniteSets, TLC

\* ---------------------------------------------------------------- bounds
\* Number of iterations the writer of the slot buffer runs.
MaxPublish == 3

\* Last instant of the clock the hardware interface reports.
MaxTime == 3

\* Number of iterations each Perception instance runs.
MaxSnapshots == 2

\* ------------------------------------------------------------- instances
\* cyclers.instances_with(CyclerKind::Perception)
PerceptionInstances == {"V", "W"}

\* The slot buffer needs one slot being written, one committed, and one per
\* reader that may still hold an older committed slot.
Slots == 1 .. (Cardinality(PerceptionInstances) + 2)

NoSlot == 0

VARIABLES
    \* --- slot buffer of instance A's Database (Writer<Database>/Reader<Database>)
    slots,          \* slot -> Database content [n1, n2]: the iteration that wrote each output
    committed,      \* the committed slot, NoSlot before the first publish
    writing,        \* the slot the writer holds, NoSlot outside an iteration
    reading,        \* reader -> the slot its guard holds, NoSlot when it holds none
    wpc,            \* position of A's thread inside cycle()
    iteration,      \* number of the iteration A is running (1-based)
    publishes,      \* number of completed publishes
    rdCopy,         \* reader -> the Database it saw when it took its guard
    rdPrev,         \* reader -> the version its previous guard showed
    rdDone,         \* reader -> publishes completed when it called next()
    \* --- RealTime instance A with the Perception instances as producers
    clock,          \* the instant get_now() last returned to any thread
    lastTime,       \* thread -> the last instant it took
    queue,          \* instance -> finalized and not yet consumed (timestamp, data)
    announced,      \* instance -> its iteration is between announce() and finalize()
    finalized,      \* instance -> number of snapshots it has finalized
    rpc,            \* position of A's thread inside cycle()
    rtIndex,        \* index of the next consumer A drains
    now,            \* A's now of the running iteration
    updates,        \* instance -> the batch A drained in this iteration
    temporary,      \* perception_databases: timestamp -> Databases, not yet folded in
    persistent,     \* perception_databases: timestamp -> Databases, folded in
    historic,       \* historic_databases.databases: timestamp -> MainOutputs
    outputs,        \* A's own main outputs as written by its nodes
    delivered,      \* instance -> every batch consume() has returned, concatenated
    finAtConsume,   \* instance -> snapshots finalized when consume() was last called
    prevTemporary,  \* temporary as it was before the last update()
    prevHistoric,   \* historic as it was before the last update()
    lastHorizon,    \* the horizon the last historic update() was given
    evicted,        \* timestamps historic update() has evicted so far
    \* --- the thread of Perception instance V (Execution::Run)
    pc,                 \* position of the thread in start() and cycle()
    cancelled,          \* keep_running.is_cancelled()
    threadResult,       \* what the thread's closure returned
    cycles,             \* number of cycle() calls so far
    self_enable_recording, \* self.enable_recording
    enable_recording,   \* the local enable_recording of the running iteration
    recording_frame,    \* the local recording_frame of the running iteration
    recording_sender,   \* the frames in the bounded recording channel
    own_database,       \* main outputs behind own_database_reference
    ownCommitted,       \* main outputs of the committed buffer of the own Writer
    ownSpare,           \* main outputs of the own Writer's next buffer
    a_database,         \* main outputs of A behind the guard of a_reader
    nodeIndex,          \* index of the next node in its list
    vnow,               \* the local now of the running iteration
    hwTime,             \* the hardware clock
    vAnnounced,         \* own_producer has an announced, not finalized iteration
    vQueue,             \* what own_producer has finalized
    notified,           \* number of own_changed.notify_one() calls
    status,             \* node -> what happened to it in the running iteration
    returned,           \* node -> the main output its last cycle() returned
    failure,            \* the first node error: [node, cycle], or NoFailure
    locked,             \* the instances whose reader guard the iteration of V holds
    cancelledBy,        \* who cancelled keep_running first
    \* --- the thread of RealTime instance A, which shares keep_running with V
    aPc,                \* position of A's thread in start() and cycle()
    aResult,            \* what the closure of A's thread returned
    aCommitted,         \* A's main outputs in the committed buffer of its Writer
    aSpare,             \* A's main outputs in its Writer's next buffer
    aPublished,         \* A's Writer has published at least once
    aLocked,            \* the instances whose reader guard the iteration of A holds
    \* --- what the iteration of V reads from the outside
    parameters_reader,  \* the Parameters behind parameters_reader, by version
    parameters,         \* the local parameters of the running block
    own_subscribed_outputs_reader, \* the set behind own_subscribed_outputs_reader
    own_subscribed_outputs, \* the local own_subscribed_outputs of the running block
    observedParameters, \* node -> the parameters its context was built from
    filled,             \* node -> its AdditionalOutput was computed in this iteration
    \* --- recording of V and the replay of its frames (Execution::Replay)
    liveNodes,          \* node -> its persisted state in the recording cycler
    liveLog,            \* per recorded iteration: the frame, the main outputs, the nodes run
    rpPc,               \* "recording", or the position of the replaying cycle()
    replayIndex,        \* number of the frame the last cycle() call was given
    replayGenuine,      \* the frame given is the recorded one, unaltered
    replayFrame,        \* the part of recording_frame not yet deserialized
    replayConsumed,     \* number of fields of the frame deserialized in this call
    replayNodes,        \* node -> its persisted state in the replaying cycler
    replayDatabase,     \* main outputs behind own_database_reference
    replayCommitted,    \* main outputs in the committed buffer of the own Writer
    replaySpare,        \* main outputs in the own Writer's next buffer
    replayReader,       \* main outputs of A behind the guard of a_reader
    replayExtraction,   \* replay_extraction_a_x_required_input
    replayNodeIndex,    \* index of the next node in its list
    replayStatus,       \* node -> what happened to it in this call
    replayNotified,     \* number of own_changed.notify_one() calls
    \* --- the walking engine's Mode while it is or was Mode::Starting
    mode,               \* the Mode the engine holds
    transition,         \* the WalkTransition call that produced it, with what it was given
    \* --- the node RefereePoseDetectionFilter
    pose_detection_times, \* self.pose_detection_times: player -> instant, or NoTime
    cycleContext,       \* the CycleContext of the last cycle() call
    cycleResult,        \* what the last cycle() call returned, or that it panicked
    \* --- non_maximum_suppression
    nmsCall,            \* the arguments of the call
    candiate_pose,      \* the local candiate_pose, sorted, as the loop leaves it
    poses               \* the local poses, returned when candiate_pose is empty

varsBuf == <<slots, committed, writing, reading, wpc, iteration, publishes,
             rdCopy, rdPrev, rdDone>>

varsRT == <<clock, lastTime, queue, announced, finalized, rpc, rtIndex, now, updates,
            temporary, persistent, historic, outputs, delivered, finAtConsume,
            prevTemporary, prevHistoric, lastHorizon, evicted>>

varsCyc == <<pc, cancelled, threadResult, cycles, self_enable_recording, enable_recording,
             recording_frame, recording_sender, own_database, ownCommitted, ownSpare,
             a_database, nodeIndex, vnow, hwTime, vAnnounced, vQueue, notified,
             status, returned, failure>>

\* What the actions of one part leave alone: the variables of the other parts.
varsPeerA == <<aPc, aResult, aCommitted, aSpare, aPublished, aLocked>>

varsPeer == <<varsPeerA, locked, cancelledBy>>

varsOutside == <<parameters_reader, parameters, own_subscribed_outputs_reader,
                 own_subscribed_outputs, observedParameters, filled>>

varsReplay == <<liveNodes, liveLog, rpPc, replayIndex, replayGenuine, replayFrame,
                replayConsumed, replayNodes, replayDatabase, replayCommitted, replaySpare,
                replayReader, replayExtraction, replayNodeIndex, replayStatus,
                replayNotified>>

varsWalk == <<mode, transition>>

varsReferee == <<pose_detection_times, cycleContext, cycleResult>>

varsNms == <<nmsCall, candiate_pose, poses>>

\* The nodes modelled on their own, outside a cycler.
varsNodes == <<varsWalk, varsReferee, varsNms>>

\* The cyclers and what belongs to them.
varsCyclers == <<varsBuf, varsRT, varsCyc, varsPeer, varsReplay, varsOutside>>

othersBuf == <<varsRT, varsCyc, varsPeer, varsReplay, varsOutside, varsNodes>>

othersRT == <<varsBuf, varsCyc, varsPeer, varsReplay, varsOutside, varsNodes>>

othersCyc == <<varsBuf, varsRT, varsReplay, varsOutside, varsNodes>>

othersNode == <<varsBuf, varsRT, varsReplay, varsNodes>>

othersReplay == <<varsBuf, varsRT, varsCyc, varsPeer, varsOutside, varsNodes>>

vars == <<slots, committed, writing, reading, wpc, iteration, publishes,
          rdCopy, rdPrev, rdDone,
          clock, lastTime, queue, announced, finalized, rpc, rtIndex, now, updates,
          temporary, persistent, historic, outputs, delivered, finAtConsume,
          prevTemporary, prevHistoric, lastHorizon, evicted,
          pc, cancelled, threadResult, cycles, self_enable_recording, enable_recording,
          recording_frame, recording_sender, own_database, ownCommitted, ownSpare,
          a_database, nodeIndex, vnow, hwTime, vAnnounced, vQueue, notified,
          status, returned, failure, locked, cancelledBy,
          aPc, aResult, aCommitted, aSpare, aPublished, aLocked,
          parameters_reader, parameters, own_subscribed_outputs_reader,
          own_subscribed_outputs, observedParameters, filled,
          liveNodes, liveLog, rpPc, replayIndex, replayGenuine, replayFrame,
          replayConsumed, replayNodes, replayDatabase, replayCommitted, replaySpare,
          replayReader, replayExtraction, replayNodeIndex, replayStatus,
          replayNotified,
          mode, transition, pose_detection_times, cycleContext, cycleResult,
          nmsCall, candiate_pose, poses>>

\* ------------------------------------------------------------------------
\* Slot buffer
\* ------------------------------------------------------------------------
Min(a, b) == IF a <= b THEN a ELSE b

\* Database::default(): no node has written any output yet.
DefaultDatabase == [n1 |-> 0, n2 |-> 0]

\* The version a Database snapshot shows: the oldest iteration among its outputs.
VersionOf(db) == Min(db.n1, db.n2)

\* Writer::next(): the next buffer is a slot that is neither committed nor held
\* by a reader.
FreeSlots == {s \in Slots : s /= committed /\ \A r \in PerceptionInstances : reading[r] /= s}

BeginWrite == CHOOSE s \in FreeSlots : \A t \in FreeSlots : s <= t

\* Reader::next(): the most recently committed slot.
Latest == committed

\* Dropping the writer's guard swaps the written slot into the committed position.
Publish(slot) ==
    /\ committed' = slot
    /\ writing' = NoSlot
    /\ publishes' = publishes + 1

\* own_database_reference: the slot behind the writer's guard.
NodeWriteSlotCommitted == IF committed /= NoSlot THEN committed ELSE writing

NodeWriteSlot == writing

InitBuf ==
    /\ slots = [s \in Slots |-> DefaultDatabase]
    /\ committed = NoSlot
    /\ writing = NoSlot
    /\ reading = [r \in PerceptionInstances |-> NoSlot]
    /\ wpc = "loop"
    /\ iteration = 0
    /\ publishes = 0
    /\ rdCopy = [r \in PerceptionInstances |-> DefaultDatabase]
    /\ rdPrev = [r \in PerceptionInstances |-> 0]
    /\ rdDone = [r \in PerceptionInstances |-> 0]

\* let mut own_database = self.own_writer.next();
WriterNext ==
    /\ wpc = "loop"
    /\ iteration < MaxPublish
    /\ writing' = BeginWrite
    /\ iteration' = iteration + 1
    /\ wpc' = "setup"
    /\ UNCHANGED <<slots, committed, reading, publishes, rdCopy, rdPrev, rdDone>>
    /\ UNCHANGED othersBuf

\* The setup nodes write their main outputs into own_database_reference.
WriterSetupNodes ==
    /\ wpc = "setup"
    /\ slots' = [slots EXCEPT ![NodeWriteSlot].n1 = iteration]
    /\ wpc' = "cycle"
    /\ UNCHANGED <<committed, writing, reading, iteration, publishes, rdCopy, rdPrev, rdDone>>
    /\ UNCHANGED othersBuf

\* The cycle nodes write their main outputs into own_database_reference.
WriterCycleNodes ==
    /\ wpc = "cycle"
    /\ slots' = [slots EXCEPT ![NodeWriteSlot].n2 = iteration]
    /\ wpc' = "drop"
    /\ UNCHANGED <<committed, writing, reading, iteration, publishes, rdCopy, rdPrev, rdDone>>
    /\ UNCHANGED othersBuf

\* End of the block that owns own_database (the guard is dropped), then
\* self.own_changed.notify_one(); Ok(())
WriterDrop ==
    /\ wpc = "drop"
    /\ Publish(writing)
    /\ wpc' = "loop"
    /\ UNCHANGED <<slots, reading, iteration, rdCopy, rdPrev, rdDone>>
    /\ UNCHANGED othersBuf

\* A reader that takes any readable slot instead of the latest one.
ReaderNextAny(r) ==
    /\ reading[r] = NoSlot
    /\ committed /= NoSlot
    /\ \E s \in Slots :
        /\ s /= writing
        /\ VersionOf(slots[s]) >= 1
        /\ reading' = [reading EXCEPT ![r] = s]
        /\ rdCopy' = [rdCopy EXCEPT ![r] = slots[s]]
    /\ rdPrev' = [rdPrev EXCEPT ![r] = VersionOf(rdCopy[r])]
    /\ rdDone' = [rdDone EXCEPT ![r] = publishes]
    /\ UNCHANGED <<slots, committed, writing, wpc, iteration, publishes>>
    /\ UNCHANGED othersBuf

\* lock_readers of a Perception instance: let a_database = self.a_reader.next();
\* blocks until the first publish.
ReaderNext(r) ==
    /\ reading[r] = NoSlot
    /\ Latest /= NoSlot
    /\ reading' = [reading EXCEPT ![r] = Latest]
    /\ rdCopy' = [rdCopy EXCEPT ![r] = slots[Latest]]
    /\ rdPrev' = [rdPrev EXCEPT ![r] = VersionOf(rdCopy[r])]
    /\ rdDone' = [rdDone EXCEPT ![r] = publishes]
    /\ UNCHANGED <<slots, committed, writing, wpc, iteration, publishes>>
    /\ UNCHANGED othersBuf

\* End of the block that holds a_database: the reader's guard is dropped.
ReaderDrop(r) ==
    /\ reading[r] /= NoSlot
    /\ reading' = [reading EXCEPT ![r] = NoSlot]
    /\ UNCHANGED <<slots, committed, writing, wpc, iteration, publishes, rdCopy, rdPrev, rdDone>>
    /\ UNCHANGED othersBuf

\* ------------------------------------------------------------------------
\* RealTime cycler A: perception hand-off and the two timelines
\* ------------------------------------------------------------------------
NoTime == 0

Times == 1 .. MaxTime

Threads == {"A"} \cup PerceptionInstances

\* The order in which generate_perception_cycler_updates lists the instances.
InstanceOrder == <<"V", "W">>

\* Age beyond which update() trims an entry from persistent.
PersistentWindow == 1

\* Databases::default(): no snapshot of any instance.
EmptyDatabases == [p \in PerceptionInstances |-> <<>>]

EmptyTimeline == [t \in {} |-> EmptyDatabases]

\* MainOutputs::default() of instance A
DefaultMainOutputs == 0

EmptyHistoric == [t \in {} |-> DefaultMainOutputs]

\* A clock that may hand a thread the instant it handed it before.
NowChoicesRepeating(thread) ==
    {t \in Times : t >= clock /\ t <= clock + 1 /\ t >= lastTime[thread]}

\* The instants get_now() may return to a thread: the clock does not run
\* backwards and a thread's own timestamps strictly increase.
NowChoices(thread) ==
    {t \in Times : t >= clock /\ t <= clock + 1 /\ t > lastTime[thread]}

MinOf(S) == CHOOSE t \in S : \A u \in S : t <= u

TimestampsOf(batch) == {batch[i].timestamp : i \in DOMAIN batch}

DataAt(batch, t) ==
    LET pick(item) == item.timestamp = t
        sel == SelectSeq(batch, pick)
    IN [i \in DOMAIN sel |-> sel[i].data]

\* Producer::finalize(snapshot): enqueues (now, snapshot).
Finalize(q, t, snapshot) == Append(q, [timestamp |-> t, data |-> snapshot])

\* Consumer::consume(now): every snapshot finalized since the previous call, in order.
Consume(q) == q

\* Updates::push_to_databases: the drained batches as a timeline.
BatchesAsTimeline(batches) ==
    [t \in UNION {TimestampsOf(batches[p]) : p \in PerceptionInstances} |->
        [p \in PerceptionInstances |-> DataAt(batches[p], t)]]

MergeTimelines(a, b) ==
    [t \in (DOMAIN a) \cup (DOMAIN b) |->
        [p \in PerceptionInstances |->
            (IF t \in DOMAIN a THEN a[t][p] ELSE <<>>) \o
            (IF t \in DOMAIN b THEN b[t][p] ELSE <<>>)]]

TrimTimeline(timeline, at) ==
    [t \in {u \in DOMAIN timeline : u + PersistentWindow >= at} |-> timeline[t]]

\* PerceptionDatabases::update(now, updates): the previous temporary entries are
\* folded into persistent, persistent is trimmed, the drained batches become
\* the temporary entries.
PerceptionUpdatePersistent(pers, temp, at) == TrimTimeline(MergeTimelines(pers, temp), at)

PerceptionUpdateTemporary(batches) == BatchesAsTimeline(batches)

\* PerceptionDatabases::get_first_timestamp_of_temporary_databases()
FirstTimestampOfTemporaryDatabases(temp) ==
    IF DOMAIN temp = {} THEN NoTime ELSE MinOf(DOMAIN temp)

\* HistoricDatabases::update(now, horizon, snapshot): insert, then evict what is
\* older than the horizon.
HistoricUpdate(databases, at, horizon, snapshot) ==
    LET inserted == [t \in (DOMAIN databases) \cup {at} |->
                        IF t = at THEN snapshot ELSE databases[t]]
    IN [t \in {u \in DOMAIN inserted : horizon = NoTime \/ u >= horizon} |-> inserted[t]]

\* HistoricDatabases::query(timestamp): the snapshot stored at exactly that instant.
HistoricQuery(databases, t) == IF t \in DOMAIN databases THEN <<databases[t]>> ELSE <<>>

\* How often a snapshot of an instance occurs in a timeline.
Occurrences(timeline, p, snapshot) ==
    LET RECURSIVE count(_)
        count(S) ==
            IF S = {} THEN 0
            ELSE LET t == CHOOSE u \in S : TRUE
                     same(x) == x = snapshot
                 IN Len(SelectSeq(timeline[t][p], same)) + count(S \ {t})
    IN count(DOMAIN timeline)

InitRT ==
    /\ clock = 1
    /\ lastTime = [c \in Threads |-> NoTime]
    /\ queue = [p \in PerceptionInstances |-> <<>>]
    /\ announced = [p \in PerceptionInstances |-> FALSE]
    /\ finalized = [p \in PerceptionInstances |-> 0]
    /\ rpc = "now"
    /\ rtIndex = 1
    /\ now = NoTime
    /\ updates = [p \in PerceptionInstances |-> <<>>]
    /\ temporary = EmptyTimeline
    /\ persistent = EmptyTimeline
    /\ historic = EmptyHistoric
    /\ outputs = DefaultMainOutputs
    /\ delivered = [p \in PerceptionInstances |-> <<>>]
    /\ finAtConsume = [p \in PerceptionInstances |-> 0]
    /\ prevTemporary = EmptyTimeline
    /\ prevHistoric = EmptyHistoric
    /\ lastHorizon = NoTime
    /\ evicted = {}

\* The state of these variables in a specification that does not run them.
IdleRT == InitRT

\* Perception instance p, after its setup nodes: self.own_producer.announce();
ProducerAnnounce(p) ==
    /\ ~announced[p]
    /\ finalized[p] < MaxSnapshots
    /\ announced' = [announced EXCEPT ![p] = TRUE]
    /\ UNCHANGED <<clock, lastTime, queue, finalized, rpc, rtIndex, now, updates,
                   temporary, persistent, historic, outputs, delivered, finAtConsume,
                   prevTemporary, prevHistoric, lastHorizon, evicted>>
    /\ UNCHANGED othersRT

\* Perception instance p, after its cycle nodes:
\* self.own_producer.finalize(own_database_reference.main_outputs.clone());
\* the snapshot is identified by the number of the iteration that produced it.
ProducerFinalize(p) ==
    /\ announced[p]
    /\ \E t \in NowChoices(p) :
        /\ clock' = t
        /\ lastTime' = [lastTime EXCEPT ![p] = t]
        /\ queue' = [queue EXCEPT ![p] = Finalize(queue[p], t, finalized[p] + 1)]
    /\ finalized' = [finalized EXCEPT ![p] = finalized[p] + 1]
    /\ announced' = [announced EXCEPT ![p] = FALSE]
    /\ UNCHANGED <<rpc, rtIndex, now, updates,
                   temporary, persistent, historic, outputs, delivered, finAtConsume,
                   prevTemporary, prevHistoric, lastHorizon, evicted>>
    /\ UNCHANGED othersRT

\* post_setup of a RealTime cycler: let now = get_now(&*self.hardware_interface);
RealTimeNow ==
    /\ rpc = "now"
    /\ \E t \in NowChoices("A") :
        /\ clock' = t
        /\ lastTime' = [lastTime EXCEPT !["A"] = t]
        /\ now' = t
    /\ rtIndex' = 1
    /\ rpc' = "consume"
    /\ UNCHANGED <<queue, announced, finalized, updates,
                   temporary, persistent, historic, outputs, delivered, finAtConsume,
                   prevTemporary, prevHistoric, lastHorizon, evicted>>
    /\ UNCHANGED othersRT

\* The consumer whose result fills the field of instance p in Updates.
ConsumerOfFirst(p) == InstanceOrder[1]

ConsumerOf(p) == p

\* The value of one field of Updates: built anew in every iteration.
DrainedBatchAccumulated(previous, q) == previous \o Consume(q)

DrainedBatch(previous, q) == Consume(q)

\* One field of crate::perception_databases::Updates:
\* #identifier: self.#consumer.consume(now),
RealTimeConsume ==
    /\ rpc = "consume"
    /\ LET p == InstanceOrder[rtIndex]
           c == ConsumerOf(p)
       IN /\ updates' = [updates EXCEPT ![p] = DrainedBatch(updates[p], queue[c])]
          /\ queue' = [queue EXCEPT ![c] = <<>>]
          /\ delivered' = [delivered EXCEPT ![p] = delivered[p] \o Consume(queue[c])]
          /\ finAtConsume' = [finAtConsume EXCEPT ![p] = finalized[p]]
    /\ IF rtIndex < Len(InstanceOrder)
         THEN rtIndex' = rtIndex + 1 /\ rpc' = "consume"
         ELSE rtIndex' = 1 /\ rpc' = "update"
    /\ UNCHANGED <<clock, lastTime, announced, finalized, now,
                   temporary, persistent, historic, outputs,
                   prevTemporary, prevHistoric, lastHorizon, evicted>>
    /\ UNCHANGED othersRT

\* The Updates value handed to perception_databases.update.
UpdatesArgumentFirstOnly == [p \in PerceptionInstances |->
                                IF p = InstanceOrder[1] THEN updates[p] ELSE <<>>]

UpdatesArgument == updates

\* self.perception_databases.update(now, crate::perception_databases::Updates {...});
RealTimePerceptionUpdate ==
    /\ rpc = "update"
    /\ persistent' = PerceptionUpdatePersistent(persistent, temporary, now)
    /\ temporary' = PerceptionUpdateTemporary(UpdatesArgument)
    /\ prevTemporary' = temporary
    /\ rpc' = "cycle"
    /\ UNCHANGED <<clock, lastTime, queue, announced, finalized, rtIndex, now, updates,
                   historic, outputs, delivered, finAtConsume,
                   prevHistoric, lastHorizon, evicted>>
    /\ UNCHANGED othersRT

\* The cycle nodes of A write this iteration's main outputs; they are identified
\* by the iteration's now.
RealTimeCycleNodes ==
    /\ rpc = "cycle"
    /\ outputs' = now
    /\ rpc' = "historic"
    /\ UNCHANGED <<clock, lastTime, queue, announced, finalized, rtIndex, now, updates,
                   temporary, persistent, historic, delivered, finAtConsume,
                   prevTemporary, prevHistoric, lastHorizon, evicted>>
    /\ UNCHANGED othersRT

\* The earliest temporary timestamp as it was before this iteration's update.
HorizonArgumentPrevious == FirstTimestampOfTemporaryDatabases(prevTemporary)

\* The horizon argument of historic_databases.update.
HorizonArgument == FirstTimestampOfTemporaryDatabases(temporary)

\* The snapshot argument of historic_databases.update.
SnapshotArgumentDefault == DefaultMainOutputs

SnapshotArgument == outputs

\* self.historic_databases.update(now,
\*     self.perception_databases.get_first_timestamp_of_temporary_databases(),
\*     &own_database_reference.main_outputs);
RealTimeHistoricUpdate ==
    /\ rpc = "historic"
    /\ historic' = HistoricUpdate(historic, now, HorizonArgument, SnapshotArgument)
    /\ prevHistoric' = historic
    /\ lastHorizon' = HorizonArgument
    /\ evicted' = evicted \cup (((DOMAIN historic) \cup {now}) \ DOMAIN historic')
    /\ rpc' = "now"
    /\ UNCHANGED <<clock, lastTime, queue, announced, finalized, rtIndex, now, updates,
                   temporary, persistent, outputs, delivered, finAtConsume,
                   prevTemporary>>
    /\ UNCHANGED othersRT

\* ------------------------------------------------------------------------
\* The thread of one cycler instance: start() and cycle() in Execution::Run
\* ------------------------------------------------------------------------
\* Modelled cycler: Perception instance V with the setup nodes S1, S2 and the
\* cycle nodes N1, N2. S1 declares no RequiredInput, S2 requires the own
\* output s1, N1 requires the output x of instance A, N2 requires the own
\* outputs s2 and n1. Every main output is an Option.

\* Number of cycle() calls of the thread.
MaxIterations == 2

\* Capacity of the recording channel (std::sync::mpsc::sync_channel).
SinkCapacity == 1

None == "None"

Some == "Some"

OptionValues == {None, Some}

\* cycler.setup_nodes and cycler.cycle_nodes, in their static order
SetupNodes == <<"S1", "S2">>

CycleNodes == <<"N1", "N2">>

NodeOrder == SetupNodes \o CycleNodes

Nodes == {NodeOrder[i] : i \in DOMAIN NodeOrder}

PositionOf(n) == CHOOSE i \in DOMAIN NodeOrder : NodeOrder[i] = n

\* Field::RequiredInput { cycler_instance, path } of the node's cycle context
RequiredInputs(n) ==
    CASE n = "S1" -> {}
      [] n = "S2" -> {<<"own", "s1">>}
      [] n = "N1" -> {<<"A", "x">>}
      [] n = "N2" -> {<<"own", "s2">>, <<"own", "n1">>}

\* Field::MainOutput { name } of the node
MainOutput(n) ==
    CASE n = "S1" -> "s1"
      [] n = "S2" -> "s2"
      [] n = "N1" -> "n1"
      [] n = "N2" -> "n2"

\* MainOutputs::default() of instance V
DefaultOwnOutputs == [s1 |-> None, s2 |-> None, n1 |-> None, n2 |-> None]

\* Default::default() of one main output
DefaultOutput == None

NoFailure == [source |-> "none", cycle |-> 0]

\* MainOutputs::default() of instance A
DefaultPeerOutputs == [x |-> None]

\* cyclers.instances_with(CyclerKind::RealTime)
RealTimeInstances == {"A"}

\* The kind of the cycler an instance belongs to.
KindOf(instance) == IF instance \in RealTimeInstances THEN "RealTime" ELSE "Perception"

\* A cycler that held a Reader of every other instance, whatever its kind.
ReaderInstancesOfAllPeers(instance) == ({"V"} \cup RealTimeInstances) \ {instance}

\* generate_input_output_fields and lock_readers: a Perception cycler has and
\* locks a Reader of every RealTime instance, a RealTime cycler has no Reader.
ReaderInstances(instance) ==
    IF KindOf(instance) = "Perception" THEN RealTimeInstances ELSE {}

\* keep_running.cancel() by `who`; the first to cancel is remembered.
CancelledBy(who) == IF cancelled THEN cancelledBy ELSE who

\* What a node's cycle() may return: an error or its main output.
NodeResults == {"Err"} \cup OptionValues

\* get_cross_inputs: the fields of the cycle contexts that cross a boundary;
\* in this cycler the RequiredInput fields of another instance.
CrossInputs ==
    UNION {{i \in RequiredInputs(n) : i[1] /= "own"} : n \in Nodes}

\* The accessor of a RequiredInput: the own Database behind
\* own_database_reference, or the Database behind the reader's guard.
InputValue(i) == IF i[1] = "own" THEN own_database[i[2]] ELSE a_database[i[2]]

\* A condition that is satisfied by any one present input.
AreRequiredInputsSomeAny(n) ==
    RequiredInputs(n) = {} \/ \E i \in RequiredInputs(n) : InputValue(i) /= None

\* generate_required_input_condition: #(#conditions)&&* with a trailing true
AreRequiredInputsSome(n) ==
    (\A i \in RequiredInputs(n) : InputValue(i) /= None) /\ TRUE

\* The guard of own_writer is dropped: the written buffer becomes the committed
\* one, the buffer committed before becomes the next buffer.
DropOwnDatabase ==
    /\ ownCommitted' = own_database
    /\ ownSpare' = ownCommitted

\* Number of times the Parameters are reloaded from outside.
MaxReloads == 1

\* The version of the Parameters the cycler is constructed with.
InitialParameters == 1

\* No context of the node was built in the running iteration.
NoSnapshot == 0

\* Field::AdditionalOutput { path } of the node's cycle context, as segments.
AdditionalOutputs(n) ==
    CASE n = "S1" -> {<<"s1_debug">>}
      [] n = "N1" -> {<<"n1_debug">>}
      [] OTHER -> {}

\* once("additional_outputs").chain(path.segments ..).join(".")
PathString(path) == <<"additional_outputs">> \o path

\* The sets of dotted paths the outside may subscribe to.
SubscriptionChoices ==
    {{},
     {<<"additional_outputs", "n1_debug">>},
     {<<"main_outputs", "n1">>, <<"additional_outputs", "s1_debug">>}}

\* framework::should_be_filled(subscribed_output, path): the two paths agree
\* segment by segment as far as both go.
ShouldBeFilled(subscribed_output, path) ==
    \A k \in 1 .. Min(Len(subscribed_output), Len(path)) : subscribed_output[k] = path[k]

\* An AdditionalOutput that is handed true whatever is subscribed.
IsSubscribedAlways(path) == TRUE

\* own_subscribed_outputs.iter().any(|subscribed_output|
\*     framework::should_be_filled(subscribed_output, #path_string))
IsSubscribed(path) ==
    \E subscribed_output \in own_subscribed_outputs :
        ShouldBeFilled(subscribed_output, PathString(path))

\* The context of node n is built, if its RequiredInputs are present, from the
\* local parameters and own_subscribed_outputs of the block; the node, like
\* PoseInterpretation::cycle, calls fill_if_subscribed on every path through
\* it, which computes and writes the value when it was handed true.
BuildContext(n) ==
    IF AreRequiredInputsSome(n)
        THEN /\ observedParameters' = [observedParameters EXCEPT ![n] = parameters]
             /\ filled' = [filled EXCEPT
                    ![n] = \E path \in AdditionalOutputs(n) : IsSubscribed(path)]
        ELSE UNCHANGED <<observedParameters, filled>>

InitCyc ==
    /\ parameters_reader = InitialParameters
    /\ parameters = InitialParameters
    /\ own_subscribed_outputs_reader = {}
    /\ own_subscribed_outputs = {}
    /\ observedParameters = [n \in Nodes |-> NoSnapshot]
    /\ filled = [n \in Nodes |-> FALSE]
    /\ pc = "loop"
    /\ cancelled = FALSE
    /\ threadResult = [kind |-> "running"]
    /\ cycles = 0
    /\ self_enable_recording \in BOOLEAN
    /\ enable_recording = FALSE
    /\ recording_frame = <<>>
    /\ recording_sender = <<>>
    /\ own_database = DefaultOwnOutputs
    /\ ownCommitted = DefaultOwnOutputs
    /\ ownSpare = DefaultOwnOutputs
    /\ a_database = DefaultPeerOutputs
    /\ nodeIndex = 1
    /\ vnow = 0
    /\ hwTime = 0
    /\ vAnnounced = FALSE
    /\ vQueue = <<>>
    /\ notified = 0
    /\ status = [n \in Nodes |-> "pending"]
    /\ returned = [n \in Nodes |-> None]
    /\ failure = NoFailure
    /\ locked = {}
    /\ cancelledBy = "none"
    /\ aPc = "loop"
    /\ aResult = [kind |-> "running"]
    /\ aCommitted = DefaultPeerOutputs
    /\ aSpare = DefaultPeerOutputs
    /\ aPublished = FALSE
    /\ aLocked = {}

\* The state of these variables in a specification that does not run them.
IdleCyc == InitCyc /\ self_enable_recording = FALSE

\* A loop that does not look at keep_running.
ThreadLoopUnchecked ==
    /\ pc = "loop"
    /\ cycles < MaxIterations
    /\ pc' = "begin"
    /\ cycles' = cycles + 1
    /\ UNCHANGED <<cancelled, threadResult, self_enable_recording, enable_recording,
                   recording_frame, recording_sender, own_database, ownCommitted, ownSpare,
                   a_database, nodeIndex, vnow, hwTime, vAnnounced, vQueue, notified,
                   status, returned, failure>>
    /\ UNCHANGED <<othersCyc, varsPeer>>

\* while !keep_running.is_cancelled() { ... } Ok(())
ThreadLoop ==
    /\ pc = "loop"
    /\ \/ /\ cancelled
          /\ pc' = "done"
          /\ threadResult' = [kind |-> "ok"]
          /\ UNCHANGED cycles
       \/ /\ ~cancelled
          /\ cycles < MaxIterations
          /\ pc' = "begin"
          /\ cycles' = cycles + 1
          /\ UNCHANGED threadResult
    /\ UNCHANGED <<cancelled, self_enable_recording, enable_recording,
                   recording_frame, recording_sender, own_database, ownCommitted, ownSpare,
                   a_database, nodeIndex, vnow, hwTime, vAnnounced, vQueue, notified,
                   status, returned, failure>>
    /\ UNCHANGED <<othersCyc, varsPeer>>

\* let mut own_database = self.own_writer.next(); and pre_setup:
\* let enable_recording = self.enable_recording && self.hardware_interface.should_record();
\* let mut recording_frame = Vec::new();
\* and the head of the block of the setup nodes:
\* let own_subscribed_outputs = self.own_subscribed_outputs_reader.next();
\* let parameters = self.parameters_reader.next();
CycleBegin ==
    /\ pc = "begin"
    /\ own_subscribed_outputs' = own_subscribed_outputs_reader
    /\ parameters' = parameters_reader
    /\ observedParameters' = [n \in Nodes |-> NoSnapshot]
    /\ filled' = [n \in Nodes |-> FALSE]
    /\ UNCHANGED <<parameters_reader, own_subscribed_outputs_reader>>
    /\ own_database' = ownSpare
    /\ \E should_record \in BOOLEAN :
        enable_recording' = (self_enable_recording /\ should_record)
    /\ recording_frame' = <<>>
    /\ status' = [n \in Nodes |-> "pending"]
    /\ returned' = [n \in Nodes |-> None]
    /\ a_database' = DefaultPeerOutputs
    /\ nodeIndex' = 1
    /\ pc' = "setup"
    /\ UNCHANGED <<cancelled, threadResult, cycles, self_enable_recording,
                   recording_sender, ownCommitted, ownSpare,
                   vnow, hwTime, vAnnounced, vQueue, notified, failure>>
    /\ UNCHANGED <<othersNode, varsPeer>>

\* A recording that leaves the node out.
RecordNodeStateSkipped(frame, n) == frame

\* generate_record_node_state: the node is serialized before a cycle node runs.
RecordNodeState(frame, n) ==
    IF enable_recording THEN Append(frame, [kind |-> "node", name |-> n, value |-> None])
    ELSE frame

\* A recording of the main output that does not look at enable_recording.
RecordMainOutputAlways(frame, n, value) ==
    Append(frame, [kind |-> "main_output", name |-> MainOutput(n), value |-> value])

\* generate_record_main_outputs: the main output is serialized after a setup node.
RecordMainOutput(frame, n, value) ==
    IF enable_recording
        THEN Append(frame, [kind |-> "main_output", name |-> MainOutput(n), value |-> value])
    ELSE frame

\* generate_write_main_outputs_from_node for node n, between the recording
\* steps of generate_node_execution; `nodes` is the list n is taken from and
\* `after` the position that follows the list.
ExecuteNode(n, nodes, after, isSetup) ==
    LET before == IF isSetup THEN recording_frame ELSE RecordNodeState(recording_frame, n)
        advance ==
            IF nodeIndex < Len(nodes)
                THEN nodeIndex' = nodeIndex + 1 /\ pc' = pc
                ELSE nodeIndex' = 1 /\ pc' = after
        write(value) ==
            /\ own_database' = [own_database EXCEPT ![MainOutput(n)] = value]
            /\ recording_frame' = IF isSetup THEN RecordMainOutput(before, n, value) ELSE before
    IN IF AreRequiredInputsSome(n)
        THEN \E result \in NodeResults :
                IF result = "Err"
                    THEN /\ failure' = [source |-> n, cycle |-> cycles]
                         /\ status' = [status EXCEPT ![n] = "failed"]
                         /\ recording_frame' = before
                         /\ pc' = "return_err"
                         /\ UNCHANGED <<own_database, returned, nodeIndex>>
                    ELSE /\ write(result)
                         /\ status' = [status EXCEPT ![n] = "ran"]
                         /\ returned' = [returned EXCEPT ![n] = result]
                         /\ advance
                         /\ UNCHANGED failure
        ELSE /\ write(DefaultOutput)
             /\ status' = [status EXCEPT ![n] = "skipped"]
             /\ advance
             /\ UNCHANGED <<returned, failure>>

\* #(#setup_node_executions)*
SetupNode ==
    /\ pc = "setup"
    /\ ExecuteNode(SetupNodes[nodeIndex], SetupNodes, "post_setup", TRUE)
    /\ BuildContext(SetupNodes[nodeIndex])
    /\ UNCHANGED <<cancelled, threadResult, cycles, self_enable_recording, enable_recording,
                   recording_sender, ownCommitted, ownSpare,
                   a_database, vnow, hwTime, vAnnounced, vQueue, notified>>
    /\ UNCHANGED <<parameters_reader, parameters, own_subscribed_outputs_reader,
                   own_subscribed_outputs>>
    /\ UNCHANGED <<othersNode, varsPeer>>

\* A post_setup that takes the time and announces nothing.
PostSetupUnannounced ==
    /\ pc = "post_setup"
    /\ hwTime' = hwTime + 1
    /\ vnow' = hwTime + 1
    /\ pc' = "lock_readers"
    /\ own_subscribed_outputs' = own_subscribed_outputs_reader
    /\ parameters' = parameters_reader
    /\ UNCHANGED <<parameters_reader, own_subscribed_outputs_reader, observedParameters,
                   filled>>
    /\ UNCHANGED <<cancelled, threadResult, cycles, self_enable_recording, enable_recording,
                   recording_frame, recording_sender, own_database, ownCommitted, ownSpare,
                   a_database, nodeIndex, vAnnounced, vQueue, notified,
                   status, returned, failure>>
    /\ UNCHANGED <<othersNode, varsPeer>>

\* post_setup of a Perception cycler:
\* let now = get_now(&*self.hardware_interface); self.own_producer.announce();
\* and the head of the block of the cycle nodes:
\* let own_subscribed_outputs = self.own_subscribed_outputs_reader.next();
\* let parameters = self.parameters_reader.next();
PostSetup ==
    /\ pc = "post_setup"
    /\ hwTime' = hwTime + 1
    /\ vnow' = hwTime + 1
    /\ vAnnounced' = TRUE
    /\ pc' = "lock_readers"
    /\ own_subscribed_outputs' = own_subscribed_outputs_reader
    /\ parameters' = parameters_reader
    /\ UNCHANGED <<parameters_reader, own_subscribed_outputs_reader, observedParameters,
                   filled>>
    /\ UNCHANGED <<cancelled, threadResult, cycles, self_enable_recording, enable_recording,
                   recording_frame, recording_sender, own_database, ownCommitted, ownSpare,
                   a_database, nodeIndex, vQueue, notified,
                   status, returned, failure>>
    /\ UNCHANGED <<othersNode, varsPeer>>

\* lock_readers: let a_database = self.a_reader.next(); next() waits for
\* the first publish of A's Writer and returns the committed Database.
LockReaders ==
    /\ pc = "lock_readers"
    /\ \A i \in ReaderInstances("V") : aPublished
    /\ locked' = ReaderInstances("V")
    /\ a_database' = IF "A" \in ReaderInstances("V") THEN aCommitted ELSE a_database
    /\ pc' = "cross_inputs"
    /\ UNCHANGED <<cancelled, threadResult, cycles, self_enable_recording, enable_recording,
                   recording_frame, recording_sender, own_database, ownCommitted, ownSpare,
                   nodeIndex, vnow, hwTime, vAnnounced, vQueue, notified,
                   status, returned, failure>>
    /\ UNCHANGED <<othersCyc, varsPeerA, cancelledBy>>

\* The cross inputs in the order of the BTreeSet.
CrossInputOrder == <<<<"A", "x">>>>

\* generate_cross_inputs_recording: if enable_recording, every cross input is
\* serialized; a RequiredInput of another instance is unwrapped first
\* (&#accessor .unwrap()), which panics when it is None. The panic unwinds
\* the thread, which drops the guards. bincode::serialize_into(..)? returns
\* from cycle() when the serialization fails.
RecordCrossInputs ==
    /\ pc = "cross_inputs"
    /\ IF enable_recording /\ CrossInputs /= {}
        THEN IF \E i \in CrossInputs : InputValue(i) = None
                THEN /\ pc' = "panicked"
                     /\ threadResult' = [kind |-> "panic"]
                     /\ DropOwnDatabase
                     /\ locked' = {}
                     /\ UNCHANGED <<recording_frame, failure>>
                ELSE \/ /\ pc' = "cycle"
                        /\ recording_frame' = recording_frame \o
                               [k \in DOMAIN CrossInputOrder |->
                                   [kind |-> "required_input", name |-> CrossInputOrder[k][2],
                                    value |-> InputValue(CrossInputOrder[k])]]
                        /\ UNCHANGED <<threadResult, ownCommitted, ownSpare, locked, failure>>
                     \/ /\ pc' = "return_err"
                        /\ failure' = [source |-> "serialize_into", cycle |-> cycles]
                        /\ locked' = {}
                        /\ UNCHANGED <<threadResult, ownCommitted, ownSpare, recording_frame>>
        ELSE /\ pc' = "cycle"
             /\ UNCHANGED <<threadResult, ownCommitted, ownSpare, recording_frame, locked,
                            failure>>
    /\ UNCHANGED <<cancelled, cycles, self_enable_recording, enable_recording,
                   recording_sender, own_database,
                   a_database, nodeIndex, vnow, hwTime, vAnnounced, vQueue, notified,
                   status, returned>>
    /\ UNCHANGED <<othersCyc, varsPeerA, cancelledBy>>

\* #(#cycle_node_executions)*
CycleNode ==
    /\ pc = "cycle"
    /\ ExecuteNode(CycleNodes[nodeIndex], CycleNodes, "finalize", FALSE)
    /\ BuildContext(CycleNodes[nodeIndex])
    /\ locked' = IF pc' = "cycle" THEN locked ELSE {}
    /\ UNCHANGED <<cancelled, threadResult, cycles, self_enable_recording, enable_recording,
                   recording_sender, ownCommitted, ownSpare,
                   a_database, vnow, hwTime, vAnnounced, vQueue, notified>>
    /\ UNCHANGED <<parameters_reader, parameters, own_subscribed_outputs_reader,
                   own_subscribed_outputs>>
    /\ UNCHANGED <<othersNode, varsPeerA, cancelledBy>>

\* after_remaining_nodes of a Perception cycler:
\* self.own_producer.finalize(own_database_reference.main_outputs.clone());
ProducerFinalizeOwn ==
    /\ pc = "finalize"
    /\ hwTime' = hwTime + 1
    /\ vQueue' = Finalize(vQueue, hwTime + 1, own_database)
    /\ vAnnounced' = FALSE
    /\ pc' = "send"
    /\ UNCHANGED <<cancelled, threadResult, cycles, self_enable_recording, enable_recording,
                   recording_frame, recording_sender, own_database, ownCommitted, ownSpare,
                   a_database, nodeIndex, vnow, notified,
                   status, returned, failure>>
    /\ UNCHANGED <<othersCyc, varsPeer>>

\* A send that gives up the frame when the channel is full.
TrySendLossy ==
    /\ pc = "send"
    /\ IF enable_recording /\ Len(recording_sender) < SinkCapacity
        THEN recording_sender' = Append(recording_sender,
                [instance |-> "V", timestamp |-> vnow, data |-> recording_frame])
        ELSE UNCHANGED recording_sender
    /\ pc' = "drop"
    /\ UNCHANGED <<cancelled, threadResult, cycles, self_enable_recording, enable_recording,
                   recording_frame, own_database, ownCommitted, ownSpare,
                   a_database, nodeIndex, vnow, hwTime, vAnnounced, vQueue, notified,
                   status, returned, failure>>
    /\ UNCHANGED <<othersCyc, varsPeer>>

\* if enable_recording { self.recording_sender.try_send(RecordingFrame::V {
\*     timestamp: now, data: recording_frame }).wrap_err(..)?; }
TrySend ==
    /\ pc = "send"
    /\ IF enable_recording
        THEN IF Len(recording_sender) < SinkCapacity
                THEN /\ recording_sender' = Append(recording_sender,
                            [instance |-> "V", timestamp |-> vnow, data |-> recording_frame])
                     /\ pc' = "drop"
                     /\ UNCHANGED failure
                ELSE /\ failure' = [source |-> "recording_sender", cycle |-> cycles]
                     /\ pc' = "return_err"
                     /\ UNCHANGED recording_sender
        ELSE /\ pc' = "drop"
             /\ UNCHANGED <<recording_sender, failure>>
    /\ UNCHANGED <<cancelled, threadResult, cycles, self_enable_recording, enable_recording,
                   recording_frame, own_database, ownCommitted, ownSpare,
                   a_database, nodeIndex, vnow, hwTime, vAnnounced, vQueue, notified,
                   status, returned>>
    /\ UNCHANGED <<othersCyc, varsPeer>>

\* An end of the block that keeps the written buffer to itself.
DropGuardsUnpublished ==
    /\ pc = "drop"
    /\ pc' = "notify"
    /\ UNCHANGED <<cancelled, threadResult, cycles, self_enable_recording, enable_recording,
                   recording_frame, recording_sender, own_database, ownCommitted, ownSpare,
                   a_database, nodeIndex, vnow, hwTime, vAnnounced, vQueue, notified,
                   status, returned, failure>>
    /\ UNCHANGED <<othersCyc, varsPeer>>

\* The block that owns own_database and a_database ends: the guards are dropped.
DropGuards ==
    /\ pc = "drop"
    /\ DropOwnDatabase
    /\ pc' = "notify"
    /\ UNCHANGED <<cancelled, threadResult, cycles, self_enable_recording, enable_recording,
                   recording_frame, recording_sender, own_database,
                   a_database, nodeIndex, vnow, hwTime, vAnnounced, vQueue, notified,
                   status, returned, failure>>
    /\ UNCHANGED <<othersCyc, varsPeer>>

\* self.own_changed.notify_one(); Ok(())
NotifyAndReturn ==
    /\ pc = "notify"
    /\ notified' = notified + 1
    /\ pc' = "loop"
    /\ UNCHANGED <<cancelled, threadResult, cycles, self_enable_recording, enable_recording,
                   recording_frame, recording_sender, own_database, ownCommitted, ownSpare,
                   a_database, nodeIndex, vnow, hwTime, vAnnounced, vQueue,
                   status, returned, failure>>
    /\ UNCHANGED <<othersCyc, varsPeer>>

\* A cycle() that notifies own_changed on its way out with an error.
CycleReturnErrorNotified ==
    /\ pc = "return_err"
    /\ DropOwnDatabase
    /\ notified' = notified + 1
    /\ pc' = "cycle_err"
    /\ UNCHANGED <<cancelled, threadResult, cycles, self_enable_recording, enable_recording,
                   recording_frame, recording_sender, own_database,
                   a_database, nodeIndex, vnow, hwTime, vAnnounced, vQueue,
                   status, returned, failure>>
    /\ UNCHANGED <<othersCyc, varsPeer>>

\* The ? operator returns the error from cycle(); leaving the function drops the guards.
CycleReturnError ==
    /\ pc = "return_err"
    /\ DropOwnDatabase
    /\ pc' = "cycle_err"
    /\ UNCHANGED <<cancelled, threadResult, cycles, self_enable_recording, enable_recording,
                   recording_frame, recording_sender, own_database,
                   a_database, nodeIndex, vnow, hwTime, vAnnounced, vQueue, notified,
                   status, returned, failure>>
    /\ UNCHANGED <<othersCyc, varsPeer>>

\* A thread that reports the error and goes on with the next iteration.
ThreadOnErrorContinue ==
    /\ pc = "cycle_err"
    /\ pc' = "loop"
    /\ UNCHANGED <<cancelled, threadResult, cycles, self_enable_recording, enable_recording,
                   recording_frame, recording_sender, own_database, ownCommitted, ownSpare,
                   a_database, nodeIndex, vnow, hwTime, vAnnounced, vQueue, notified,
                   status, returned, failure>>
    /\ UNCHANGED <<othersCyc, varsPeer>>

\* if let Err(error) = self.cycle() { keep_running.cancel(); return Err(error).wrap_err_with(..); }
ThreadOnError ==
    /\ pc = "cycle_err"
    /\ cancelled' = TRUE
    /\ cancelledBy' = CancelledBy("V")
    /\ threadResult' = [kind |-> "err", error |-> failure]
    /\ pc' = "done"
    /\ UNCHANGED <<cycles, self_enable_recording, enable_recording,
                   recording_frame, recording_sender, own_database, ownCommitted, ownSpare,
                   a_database, nodeIndex, vnow, hwTime, vAnnounced, vQueue, notified,
                   status, returned, failure>>
    /\ UNCHANGED <<othersCyc, varsPeerA, locked>>

\* Another holder of the CancellationToken cancels it.
ExternalCancel ==
    /\ ~cancelled
    /\ pc \notin {"done", "panicked"} \/ aPc /= "done"
    /\ cancelled' = TRUE
    /\ cancelledBy' = CancelledBy("external")
    /\ UNCHANGED <<pc, threadResult, cycles, self_enable_recording, enable_recording,
                   recording_frame, recording_sender, own_database, ownCommitted, ownSpare,
                   a_database, nodeIndex, vnow, hwTime, vAnnounced, vQueue, notified,
                   status, returned, failure>>
    /\ UNCHANGED <<othersCyc, varsPeerA, locked>>

\* The receiving end of the recording channel takes a frame.
RecordingReceive ==
    /\ recording_sender /= <<>>
    /\ recording_sender' = Tail(recording_sender)
    /\ UNCHANGED <<pc, cancelled, threadResult, cycles, self_enable_recording, enable_recording,
                   recording_frame, own_database, ownCommitted, ownSpare,
                   a_database, nodeIndex, vnow, hwTime, vAnnounced, vQueue, notified,
                   status, returned, failure>>
    /\ UNCHANGED <<othersCyc, varsPeer>>

\* ------------------------------------------------------------------------
\* The thread of RealTime instance A, started with the same keep_running
\* ------------------------------------------------------------------------
PeerFailure == [source |-> "A", cycle |-> 0]

\* while !keep_running.is_cancelled() { ... } Ok(())
PeerThreadLoop ==
    /\ aPc = "loop"
    /\ IF cancelled
        THEN aPc' = "done" /\ aResult' = [kind |-> "ok"]
        ELSE aPc' = "gather" /\ UNCHANGED aResult
    /\ UNCHANGED <<aCommitted, aSpare, aPublished, aLocked>>
    /\ UNCHANGED <<othersCyc, varsCyc, locked, cancelledBy>>

\* The iteration of A up to its cycle nodes: own_writer.next(), the setup
\* nodes, and post_setup of a RealTime cycler:
\* self.perception_databases.update(now, Updates { v: self.v_consumer.consume(now) });
\* lock_readers is empty for a RealTime cycler.
PeerGather ==
    /\ aPc = "gather"
    /\ vQueue' = SubSeq(vQueue, Len(Consume(vQueue)) + 1, Len(vQueue))
    /\ aLocked' = ReaderInstances("A")
    /\ aPc' = "cycle"
    /\ UNCHANGED <<aResult, aCommitted, aSpare, aPublished>>
    /\ UNCHANGED <<pc, cancelled, threadResult, cycles, self_enable_recording, enable_recording,
                   recording_frame, recording_sender, own_database, ownCommitted, ownSpare,
                   a_database, nodeIndex, vnow, hwTime, vAnnounced, notified,
                   status, returned, failure>>
    /\ UNCHANGED <<othersCyc, locked, cancelledBy>>

\* The cycle node of A that writes x, to the end of cycle(): the node fails
\* or its output is written to the buffer own_writer.next() returned, and the
\* guard of own_writer is dropped either way.
PeerCycleNode ==
    /\ aPc = "cycle"
    /\ \E result \in NodeResults :
        IF result = "Err"
            THEN aPc' = "cycle_err" /\ aCommitted' = aSpare
            ELSE aPc' = "loop" /\ aCommitted' = [aSpare EXCEPT !.x = result]
    /\ aSpare' = aCommitted
    /\ aPublished' = TRUE
    /\ aLocked' = {}
    /\ UNCHANGED aResult
    /\ UNCHANGED <<othersCyc, varsCyc, locked, cancelledBy>>

\* if let Err(error) = self.cycle() { keep_running.cancel(); return Err(error).. }
PeerThreadOnError ==
    /\ aPc = "cycle_err"
    /\ cancelled' = TRUE
    /\ cancelledBy' = CancelledBy("A")
    /\ aResult' = [kind |-> "err", error |-> PeerFailure]
    /\ aPc' = "done"
    /\ UNCHANGED <<aCommitted, aSpare, aPublished, aLocked>>
    /\ UNCHANGED <<pc, threadResult, cycles, self_enable_recording, enable_recording,
                   recording_frame, recording_sender, own_database, ownCommitted, ownSpare,
                   a_database, nodeIndex, vnow, hwTime, vAnnounced, vQueue, notified,
                   status, returned, failure>>
    /\ UNCHANGED <<othersCyc, locked>>

\* Seen from the thread of V alone, an iteration of A is a new committed
\* Database behind a_reader.
PeerPublish ==
    /\ aPc = "loop"
    /\ \E x \in OptionValues : aCommitted' = [aSpare EXCEPT !.x = x]
    /\ aSpare' = aCommitted
    /\ aPublished' = TRUE
    /\ UNCHANGED <<aPc, aResult, aLocked>>
    /\ UNCHANGED <<othersCyc, varsCyc, locked, cancelledBy>>

\* The steps of the thread of V, and of the thread of A.
ThreadOfV ==
    \/ ThreadLoop
    \/ CycleBegin
    \/ SetupNode
    \/ PostSetup
    \/ LockReaders
    \/ RecordCrossInputs
    \/ CycleNode
    \/ ProducerFinalizeOwn
    \/ TrySend
    \/ DropGuards
    \/ NotifyAndReturn
    \/ CycleReturnError
    \/ ThreadOnError

ThreadOfA ==
    \/ PeerThreadLoop
    \/ PeerGather
    \/ PeerCycleNode
    \/ PeerThreadOnError

\* The outside stores new Parameters behind parameters_reader (a hot reload);
\* the thread of V is not involved.
ParametersReload ==
    /\ parameters_reader < InitialParameters + MaxReloads
    /\ parameters_reader' = parameters_reader + 1
    /\ UNCHANGED <<parameters, own_subscribed_outputs_reader, own_subscribed_outputs,
                   observedParameters, filled>>
    /\ UNCHANGED <<varsCyc, varsPeer, othersNode>>

\* The outside stores another set behind own_subscribed_outputs_reader.
SubscribedOutputsChange ==
    /\ \E subscribed \in SubscriptionChoices \ {own_subscribed_outputs_reader} :
            own_subscribed_outputs_reader' = subscribed
    /\ UNCHANGED <<parameters_reader, parameters, own_subscribed_outputs,
                   observedParameters, filled>>
    /\ UNCHANGED <<varsCyc, varsPeer, othersNode>>

\* The thread of V, its recording off, with the outside reloading the
\* Parameters while it runs.
NextParameters ==
    \/ ThreadLoop
    \/ CycleBegin
    \/ SetupNode
    \/ PostSetup
    \/ LockReaders
    \/ RecordCrossInputs
    \/ CycleNode
    \/ ProducerFinalizeOwn
    \/ TrySend
    \/ DropGuards
    \/ NotifyAndReturn
    \/ CycleReturnError
    \/ ThreadOnError
    \/ PeerPublish
    \/ ParametersReload

\* The thread of V, its recording off, with the outside changing the
\* subscriptions while it runs.
NextSubscriptions ==
    \/ ThreadLoop
    \/ CycleBegin
    \/ SetupNode
    \/ PostSetup
    \/ LockReaders
    \/ RecordCrossInputs
    \/ CycleNode
    \/ ProducerFinalizeOwn
    \/ TrySend
    \/ DropGuards
    \/ NotifyAndReturn
    \/ CycleReturnError
    \/ ThreadOnError
    \/ PeerPublish
    \/ SubscribedOutputsChange

Next ==
    \/ ThreadLoop
    \/ CycleBegin
    \/ SetupNode
    \/ PostSetup
    \/ LockReaders
    \/ RecordCrossInputs
    \/ CycleNode
    \/ ProducerFinalizeOwn
    \/ TrySend
    \/ DropGuards
    \/ NotifyAndReturn
    \/ CycleReturnError
    \/ ThreadOnError
    \/ PeerPublish
    \/ ExternalCancel
    \/ RecordingReceive

\* The threads of V and of A, started with one CancellationToken.
NextGroup ==
    \/ ThreadLoop
    \/ CycleBegin
    \/ SetupNode
    \/ PostSetup
    \/ LockReaders
    \/ RecordCrossInputs
    \/ CycleNode
    \/ ProducerFinalizeOwn
    \/ TrySend
    \/ DropGuards
    \/ NotifyAndReturn
    \/ CycleReturnError
    \/ ThreadOnError
    \/ PeerThreadLoop
    \/ PeerGather
    \/ PeerCycleNode
    \/ PeerThreadOnError
    \/ ExternalCancel

\* ------------------------------------------------------------------------
\* Recording K iterations of V and replaying the frames (Execution::Replay)
\* ------------------------------------------------------------------------
\* Number of iterations that are recorded.
MaxFrames == 3

\* The values an output of type Option<T> holds besides None.
Payloads == {"p", "q"}

\* What the hardware interface hands the setup node S1.
HardwareReadings == {None, "p"}

\* The persisted state of a node.
InitialNodeState == "even"

Toggled(state) == IF state = "even" THEN "odd" ELSE "even"

\* A deterministic node set: self.node.cycle(CycleContext::new(..)) as a
\* function of the node's state and of its context. S1 passes on what the
\* hardware reads; the other nodes alternate between passing on an input and
\* producing nothing. peer is the RequiredInput x as the context holds it.
NodeCycle(n, state, own, peer, hw) ==
    CASE n = "S1" -> [state |-> state, output |-> hw]
      [] n = "S2" -> [state |-> Toggled(state),
                      output |-> IF state = "even" THEN own.s1 ELSE None]
      [] n = "N1" -> [state |-> Toggled(state),
                      output |-> IF state = "even" THEN peer ELSE None]
      [] n = "N2" -> [state |-> Toggled(state), output |-> own.n1]

\* A condition that is satisfied by any one present input.
RequiredInputConditionAny(n, own, reader) ==
    RequiredInputs(n) = {}
    \/ \E i \in RequiredInputs(n) :
        (IF i[1] = "own" THEN own[i[2]] ELSE reader[i[2]]) /= None

\* generate_required_input_condition, emitted alike for Run and Replay: every
\* RequiredInput is looked up in own_database_reference.main_outputs or in
\* a_database.main_outputs, the Database behind the guard of a_reader.
RequiredInputCondition(n, own, reader) ==
    (\A i \in RequiredInputs(n) :
        (IF i[1] = "own" THEN own[i[2]] ELSE reader[i[2]]) /= None) /\ TRUE

\* Nodes of which a skipped one leaves its main output as the buffer held it.
RECURSIVE LiveNodesKeepStale(_, _, _, _, _)
LiveNodesKeepStale(nodes, acc, reader, hw, isSetup) ==
    IF nodes = <<>> THEN acc
    ELSE LET n == Head(nodes)
             before == IF isSetup THEN acc.frame
                       ELSE Append(acc.frame, [kind |-> "node", value |-> acc.nodes[n]])
             present == RequiredInputCondition(n, acc.own, reader)
             result == NodeCycle(n, acc.nodes[n], acc.own, reader.x, hw)
             output == IF present THEN result.output ELSE acc.own[MainOutput(n)]
         IN LiveNodesKeepStale(Tail(nodes),
                [own |-> [acc.own EXCEPT ![MainOutput(n)] = output],
                 nodes |-> IF present THEN [acc.nodes EXCEPT ![n] = result.state]
                           ELSE acc.nodes,
                 frame |-> IF isSetup
                           THEN Append(before, [kind |-> "main_output", value |-> output])
                           ELSE before,
                 ran |-> IF present THEN acc.ran \cup {n} ELSE acc.ran],
                reader, hw, isSetup)

\* The nodes of one list in Execution::Run with recording enabled, from the
\* state acc = [own, nodes, frame, ran]: a cycle node's state is serialized
\* before it runs, a setup node's main output after it ran or was defaulted.
RECURSIVE LiveNodes(_, _, _, _, _)
LiveNodes(nodes, acc, reader, hw, isSetup) ==
    IF nodes = <<>> THEN acc
    ELSE LET n == Head(nodes)
             before == IF isSetup THEN acc.frame
                       ELSE Append(acc.frame, [kind |-> "node", value |-> acc.nodes[n]])
             present == RequiredInputCondition(n, acc.own, reader)
             result == NodeCycle(n, acc.nodes[n], acc.own, reader.x, hw)
             output == IF present THEN result.output ELSE DefaultOutput
         IN LiveNodes(Tail(nodes),
                [own |-> [acc.own EXCEPT ![MainOutput(n)] = output],
                 nodes |-> IF present THEN [acc.nodes EXCEPT ![n] = result.state]
                           ELSE acc.nodes,
                 frame |-> IF isSetup
                           THEN Append(before, [kind |-> "main_output", value |-> output])
                           ELSE before,
                 ran |-> IF present THEN acc.ran \cup {n} ELSE acc.ran],
                reader, hw, isSetup)

\* A cycle() that serializes the cross inputs ahead of the setup nodes.
LiveCycleCrossFirst(buffer, nodes, hw, x) ==
    LET setup == LiveNodes(SetupNodes,
                    [own |-> buffer, nodes |-> nodes,
                     frame |-> <<[kind |-> "required_input", value |-> x]>>, ran |-> {}],
                    DefaultPeerOutputs, hw, TRUE)
    IN LiveNodes(CycleNodes, setup, [x |-> x], hw, FALSE)

\* One whole cycle() of V in Execution::Run with recording enabled, from the
\* buffer own_writer.next() hands out, the hardware reading hw and x of A
\* behind the reader's guard.
LiveCycle(buffer, nodes, hw, x) ==
    LET setup == LiveNodes(SetupNodes,
                    [own |-> buffer, nodes |-> nodes, frame |-> <<>>, ran |-> {}],
                    DefaultPeerOutputs, hw, TRUE)
        cross == [setup EXCEPT
                    !.frame = Append(setup.frame, [kind |-> "required_input", value |-> x])]
    IN LiveNodes(CycleNodes, cross, [x |-> x], hw, FALSE)

\* The buffer own_writer.next() returns: the one committed two publishes ago.
LiveBuffer ==
    IF Len(liveLog) >= 2 THEN liveLog[Len(liveLog) - 1].outputs ELSE DefaultOwnOutputs

\* A deserialization that makes up a value where the frame has none.
DeserializeOrDefault(frame, kind) ==
    IF frame = <<>> \/ Head(frame).kind /= kind
        THEN [ok |-> TRUE,
              value |-> IF kind = "node" THEN InitialNodeState
                        ELSE IF kind = "required_input" THEN "p" ELSE None,
              rest |-> frame]
        ELSE [ok |-> TRUE, value |-> Head(frame).value, rest |-> Tail(frame)]

\* bincode::deserialize_from with a trailing `?`: the next field as a value of
\* the expected type, or an error when the frame has run out or the field is
\* not of that type.
Deserialize(frame, kind) ==
    IF frame = <<>> \/ Head(frame).kind /= kind
        THEN [ok |-> FALSE, value |-> None, rest |-> frame]
        ELSE [ok |-> TRUE, value |-> Head(frame).value, rest |-> Tail(frame)]

\* What the replaying cycle() may be handed for a recorded frame: the frame
\* itself, a frame cut short, or one with a field that is no valid encoding.
Unreadable == [kind |-> "invalid", value |-> None]

FrameVariants(frame) ==
    {frame}
    \cup {SubSeq(frame, 1, k) : k \in 0 .. (Len(frame) - 1)}
    \cup {[frame EXCEPT ![k] = Unreadable] : k \in DOMAIN frame}

InitReplay ==
    /\ liveNodes = [n \in Nodes |-> InitialNodeState]
    /\ liveLog = <<>>
    /\ rpPc = "recording"
    /\ replayIndex = 0
    /\ replayGenuine = TRUE
    /\ replayFrame = <<>>
    /\ replayConsumed = 0
    /\ replayNodes = [n \in Nodes |-> InitialNodeState]
    /\ replayDatabase = DefaultOwnOutputs
    /\ replayCommitted = DefaultOwnOutputs
    /\ replaySpare = DefaultOwnOutputs
    /\ replayReader = DefaultPeerOutputs
    /\ replayExtraction = "p"
    /\ replayNodeIndex = 1
    /\ replayStatus = [n \in Nodes |-> "pending"]
    /\ replayNotified = 0

IdleReplay == InitReplay

\* One recorded iteration of V: x of A is present behind the reader's guard,
\* no node fails and the frame is accepted by the recording channel.
LiveRecord ==
    /\ rpPc = "recording"
    /\ Len(liveLog) < MaxFrames
    /\ \E hw \in HardwareReadings, x \in Payloads :
        LET done == LiveCycle(LiveBuffer, liveNodes, hw, x)
        IN /\ liveNodes' = done.nodes
           /\ liveLog' = Append(liveLog,
                [frame |-> done.frame, outputs |-> done.own, ran |-> done.ran])
    /\ UNCHANGED <<rpPc, replayIndex, replayGenuine, replayFrame, replayConsumed,
                   replayNodes, replayDatabase, replayCommitted, replaySpare, replayReader,
                   replayExtraction, replayNodeIndex, replayStatus, replayNotified>>
    /\ UNCHANGED othersReplay

\* pub fn cycle(&mut self, now, recording_frame: &[u8]) is called with the
\* next frame; let mut own_database = self.own_writer.next();
ReplayCall ==
    /\ rpPc \in {"recording", "idle"}
    /\ replayIndex < Len(liveLog)
    /\ \E frame \in FrameVariants(liveLog[replayIndex + 1].frame) :
        /\ replayFrame' = frame
        /\ replayGenuine' = (frame = liveLog[replayIndex + 1].frame)
    /\ replayIndex' = replayIndex + 1
    /\ replayConsumed' = 0
    /\ replayDatabase' = replaySpare
    /\ replayStatus' = [n \in Nodes |-> "pending"]
    /\ replayNodeIndex' = 1
    /\ rpPc' = "setup"
    /\ UNCHANGED <<liveNodes, liveLog, replayNodes, replayCommitted, replaySpare,
                   replayReader, replayExtraction, replayNotified>>
    /\ UNCHANGED othersReplay

\* (NodeType::Setup, Execution::Replay): generate_write_main_outputs_from_frame,
\* own_database_reference.main_outputs.name = bincode::deserialize_from(..)?;
ReplaySetupNode ==
    /\ rpPc = "setup"
    /\ LET n == SetupNodes[replayNodeIndex]
           field == Deserialize(replayFrame, "main_output")
       IN IF field.ok
            THEN /\ replayDatabase' = [replayDatabase EXCEPT ![MainOutput(n)] = field.value]
                 /\ replayFrame' = field.rest
                 /\ replayConsumed' = replayConsumed + 1
                 /\ replayStatus' = [replayStatus EXCEPT ![n] = "from_frame"]
                 /\ IF replayNodeIndex < Len(SetupNodes)
                        THEN replayNodeIndex' = replayNodeIndex + 1 /\ rpPc' = "setup"
                        ELSE replayNodeIndex' = 1 /\ rpPc' = "lock_readers"
            ELSE /\ rpPc' = "return_err"
                 /\ UNCHANGED <<replayDatabase, replayFrame, replayConsumed, replayStatus,
                                replayNodeIndex>>
    /\ UNCHANGED <<liveNodes, liveLog, replayIndex, replayGenuine, replayNodes,
                   replayCommitted, replaySpare, replayReader, replayExtraction,
                   replayNotified>>
    /\ UNCHANGED othersReplay

\* post_setup and lock_readers, emitted by cycler kind whatever the mode:
\* self.own_producer.announce(); let a_database = self.a_reader.next();
\* the Reader of the replaying process holds x or not.
ReplayLockReaders ==
    /\ rpPc = "lock_readers"
    /\ \E x \in {None} \cup Payloads : replayReader' = [x |-> x]
    /\ rpPc' = "extract"
    /\ UNCHANGED <<liveNodes, liveLog, replayIndex, replayGenuine, replayFrame,
                   replayConsumed, replayNodes, replayDatabase, replayCommitted, replaySpare,
                   replayExtraction, replayNodeIndex, replayStatus, replayNotified>>
    /\ UNCHANGED othersReplay

\* generate_cross_inputs_extraction:
\* let replay_extraction_a_x_required_input: T = bincode::deserialize_from(..)?;
ReplayExtract ==
    /\ rpPc = "extract"
    /\ LET field == Deserialize(replayFrame, "required_input")
       IN IF field.ok
            THEN /\ replayExtraction' = field.value
                 /\ replayFrame' = field.rest
                 /\ replayConsumed' = replayConsumed + 1
                 /\ rpPc' = "cycle"
            ELSE /\ rpPc' = "return_err"
                 /\ UNCHANGED <<replayExtraction, replayFrame, replayConsumed>>
    /\ UNCHANGED <<liveNodes, liveLog, replayIndex, replayGenuine, replayNodes,
                   replayDatabase, replayCommitted, replaySpare, replayReader,
                   replayNodeIndex, replayStatus, replayNotified>>
    /\ UNCHANGED othersReplay

\* (NodeType::Cycle, Execution::Replay): generate_restore_node_state, then
\* generate_write_main_outputs_from_node with the context of Replay, in which
\* a RequiredInput of A is &replay_extraction_a_x_required_input.
ReplayCycleNode ==
    /\ rpPc = "cycle"
    /\ LET n == CycleNodes[replayNodeIndex]
           field == Deserialize(replayFrame, "node")
           result == NodeCycle(n, field.value, replayDatabase, replayExtraction, None)
           present == RequiredInputCondition(n, replayDatabase, replayReader)
       IN IF field.ok
            THEN /\ replayFrame' = field.rest
                 /\ replayConsumed' = replayConsumed + 1
                 /\ replayNodes' = [replayNodes EXCEPT
                        ![n] = IF present THEN result.state ELSE field.value]
                 /\ replayDatabase' = [replayDatabase EXCEPT
                        ![MainOutput(n)] = IF present THEN result.output ELSE DefaultOutput]
                 /\ replayStatus' = [replayStatus EXCEPT
                        ![n] = IF present THEN "ran" ELSE "skipped"]
                 /\ IF replayNodeIndex < Len(CycleNodes)
                        THEN replayNodeIndex' = replayNodeIndex + 1 /\ rpPc' = "cycle"
                        ELSE replayNodeIndex' = 1 /\ rpPc' = "finalize"
            ELSE /\ rpPc' = "return_err"
                 /\ UNCHANGED <<replayFrame, replayConsumed, replayNodes, replayDatabase,
                                replayStatus, replayNodeIndex>>
    /\ UNCHANGED <<liveNodes, liveLog, replayIndex, replayGenuine,
                   replayCommitted, replaySpare, replayReader, replayExtraction,
                   replayNotified>>
    /\ UNCHANGED othersReplay

\* self.own_producer.finalize(..); the guard of own_writer is dropped;
\* self.own_changed.notify_one(); Ok(())
ReplayReturnOk ==
    /\ rpPc = "finalize"
    /\ replayCommitted' = replayDatabase
    /\ replaySpare' = replayCommitted
    /\ replayNotified' = replayNotified + 1
    /\ rpPc' = "idle"
    /\ UNCHANGED <<liveNodes, liveLog, replayIndex, replayGenuine, replayFrame,
                   replayConsumed, replayNodes, replayDatabase, replayReader,
                   replayExtraction, replayNodeIndex, replayStatus>>
    /\ UNCHANGED othersReplay

\* The ? operator returns the error from cycle(): the guards are dropped on
\* the way out, and the run of the replay ends.
ReplayReturnError ==
    /\ rpPc = "return_err"
    /\ replayCommitted' = replayDatabase
    /\ replaySpare' = replayCommitted
    /\ rpPc' = "failed"
    /\ UNCHANGED <<liveNodes, liveLog, replayIndex, replayGenuine, replayFrame,
                   replayConsumed, replayNodes, replayDatabase, replayReader,
                   replayExtraction, replayNodeIndex, replayStatus, replayNotified>>
    /\ UNCHANGED othersReplay

\* ------------------------------------------------------------------------
\* The walking engine in Mode::Starting (mode/starting.rs)
\* ------------------------------------------------------------------------
\* Number of tick() calls a Starting step is followed through.
MaxTicks == 2

\* types::support_foot::Side
Sides == {"Left", "Right"}

\* Side::opposite()
Opposite(side) == IF side = "Left" THEN "Right" ELSE "Left"

\* The requested steps tried: Step::ZERO and one step that is not zero.
Steps == {"ZERO", "forward"}

\* The kick variants tried.
KickVariants == {"Forward", "Side"}

\* Mode::Standing(Standing {})
Standing == [kind |-> "Standing"]

\* Walking::new(context, requested_step, support_side, joints, last_requested_step)
WalkingNew(requested_step, support_side, last_requested_step) ==
    [kind |-> "Walking", requested_step |-> requested_step, support_side |-> support_side,
     last_requested_step |-> last_requested_step]

\* Kicking::new(context, kick, support_side, joints)
KickingNew(kick, support_side) ==
    [kind |-> "Kicking", kick |-> kick, support_side |-> support_side]

\* KickState::new(variant, kick_side, strength)
KickStateNew(variant, kick_side, strength) ==
    [variant |-> variant, side |-> kick_side, strength |-> strength]

\* Starting::new(context, support_side, joints): a StepState of the plan
\* StepPlan::new_from_request(parameters, Step::ZERO, support_side, joints).
StartingNew(support_side) ==
    [kind |-> "Starting",
     step |-> [plan |-> [requested_step |-> "ZERO", support_side |-> support_side],
               ticks |-> 0]]

\* A stand() that gives up the step whatever its state.
standAlways(self, is_support_switched, is_timeouted) == Standing

\* Starting::stand(self, context, joints)
stand(self, is_support_switched, is_timeouted) ==
    LET current_step == self.step
    IN IF is_support_switched \/ is_timeouted
          THEN Standing
          ELSE self

\* A walk() that keeps the support side of the plan.
walkSameSide(self, is_support_switched, is_timeouted, requested_step) ==
    LET current_step == self.step
    IN IF is_support_switched \/ is_timeouted
          THEN WalkingNew(requested_step, current_step.plan.support_side, "ZERO")
          ELSE self

\* Starting::walk(self, context, joints, requested_step)
walk(self, is_support_switched, is_timeouted, requested_step) ==
    LET current_step == self.step
    IN IF is_support_switched \/ is_timeouted
          THEN WalkingNew(requested_step, Opposite(current_step.plan.support_side), "ZERO")
          ELSE self

\* A kick() that asks for the support switch before the timeout.
kickSwitchedFirst(self, is_support_switched, is_timeouted, variant, kick_side, strength) ==
    LET current_step == self.step
        next_support_side == Opposite(current_step.plan.support_side)
    IN IF is_support_switched
          THEN IF next_support_side = kick_side
                  THEN WalkingNew("ZERO", Opposite(current_step.plan.support_side), "ZERO")
                  ELSE KickingNew(KickStateNew(variant, kick_side, strength),
                                  Opposite(current_step.plan.support_side))
          ELSE IF is_timeouted
                  THEN WalkingNew("ZERO", Opposite(current_step.plan.support_side), "ZERO")
                  ELSE self

\* Starting::kick(self, context, joints, variant, kick_side, strength)
kick(self, is_support_switched, is_timeouted, variant, kick_side, strength) ==
    LET current_step == self.step
        next_support_side == Opposite(current_step.plan.support_side)
    IN IF is_timeouted
          THEN WalkingNew("ZERO", Opposite(current_step.plan.support_side), "ZERO")
          ELSE IF is_support_switched
                  THEN IF next_support_side = kick_side
                          THEN WalkingNew("ZERO", Opposite(current_step.plan.support_side),
                                          "ZERO")
                          ELSE KickingNew(KickStateNew(variant, kick_side, strength),
                                          Opposite(current_step.plan.support_side))
                  ELSE self

\* No WalkTransition has been called.
NoTransition == [name |-> "none"]

\* The engine stands and nothing has been called.
InitWalk ==
    /\ mode = Standing
    /\ transition = NoTransition

IdleWalk == InitWalk

\* The engine enters Mode::Starting from a Mode that is not Starting.
EnterStarting ==
    /\ mode.kind # "Starting"
    /\ \E support_side \in Sides :
        /\ mode' = StartingNew(support_side)
        /\ transition' = [name |-> "new", support_side |-> support_side]
    /\ UNCHANGED <<varsCyclers, varsReferee, varsNms>>

\* Starting::tick(&mut self, context, gyro): self.step.tick(context, gyro)
StartingTick ==
    /\ mode.kind = "Starting"
    /\ mode.step.ticks < MaxTicks
    /\ mode' = [mode EXCEPT !.step.ticks = @ + 1]
    /\ transition' = [name |-> "tick"]
    /\ UNCHANGED <<varsCyclers, varsReferee, varsNms>>

\* A call of stand() on the Starting the engine holds; what
\* current_step.is_support_switched(context) and
\* current_step.is_timeouted(context.parameters) answer is the call's.
CallStand ==
    /\ mode.kind = "Starting"
    /\ \E is_support_switched \in BOOLEAN, is_timeouted \in BOOLEAN :
        /\ mode' = stand(mode, is_support_switched, is_timeouted)
        /\ transition' = [name |-> "stand", self |-> mode,
                          is_support_switched |-> is_support_switched,
                          is_timeouted |-> is_timeouted]
    /\ UNCHANGED <<varsCyclers, varsReferee, varsNms>>

\* A call of walk() on the Starting the engine holds.
CallWalk ==
    /\ mode.kind = "Starting"
    /\ \E is_support_switched \in BOOLEAN, is_timeouted \in BOOLEAN,
          requested_step \in Steps :
        /\ mode' = walk(mode, is_support_switched, is_timeouted, requested_step)
        /\ transition' = [name |-> "walk", self |-> mode,
                          is_support_switched |-> is_support_switched,
                          is_timeouted |-> is_timeouted,
                          requested_step |-> requested_step]
    /\ UNCHANGED <<varsCyclers, varsReferee, varsNms>>

\* A call of kick() on the Starting the engine holds.
CallKick ==
    /\ mode.kind = "Starting"
    /\ \E is_support_switched \in BOOLEAN, is_timeouted \in BOOLEAN,
          variant \in KickVariants, kick_side \in Sides :
        /\ mode' = kick(mode, is_support_switched, is_timeouted, variant, kick_side, 1)
        /\ transition' = [name |-> "kick", self |-> mode,
                          is_support_switched |-> is_support_switched,
                          is_timeouted |-> is_timeouted,
                          variant |-> variant, kick_side |-> kick_side]
    /\ UNCHANGED <<varsCyclers, varsReferee, varsNms>>

\* ------------------------------------------------------------------------
\* RefereePoseDetectionFilter (control/src/referee_pose_detection_filter.rs)
\* ------------------------------------------------------------------------
\* spl_network_messages::PlayerNumber; pose_detection_times has one entry each.
PlayerNumbers == {"One", "Two", "Three", "Four", "Five", "Six", "Seven"}

\* The Parameter player_number of the robot the node runs on.
OwnPlayerNumber == "Two"

\* The players whose messages arrive.
MessageSenders == {"Three"}

\* The last cycle start time of Control the node is followed to.
MaxCycleStart == 2

\* The instants a cycle start time or a perception timestamp may be.
FilterTimes == 1 .. (MaxCycleStart + 1)

\* parameters.initial_message_grace_period, in instants of the clock.
GracePeriod == 1

\* parameters.required_fraction_of_available_robots_for_decision, as
\* <<numerator, denominator>>; the value tried is exact as f32.
Fractions == {<<1, 2>>}

\* context.game_controller_state: the penalized players and
\* hulks_team_is_home_after_coin_toss.
GameControllerStates ==
    {[penalized |-> {"Three"}, home |-> TRUE],
     [penalized |-> {"Three", "Four", "Five", "Seven"}, home |-> TRUE],
     [penalized |-> {"One"}, home |-> FALSE]}

\* IncomingMessage::Spl(message) and IncomingMessage::GameController(_)
SplMessages ==
    [kind : {"Spl"}, player_number : MessageSenders, over_arms_pose_detected : BOOLEAN]

GameControllerMessage == [kind |-> "GameController"]

\* The timelines of network messages a cycle may find in temporary, as the
\* (time, message) pairs in the order of iteration: none, one message, or
\* two messages of one player at two instants.
MessageTimelines(T) ==
    {<<>>}
    \cup {<<[time |-> t, item |-> GameControllerMessage]>> : t \in {u \in T : u - 1 \notin T}}
    \cup {<<[time |-> t, item |-> m]>> : t \in T, m \in SplMessages}
    \cup {<<[time |-> q[1], item |-> q[3]], [time |-> q[2], item |-> q[4]]>> :
            q \in {r \in T \X T \X SplMessages \X SplMessages :
                      r[1] < r[2] /\ r[3].player_number = r[4].player_number}}

\* PoseType::OverheadArms and one other PoseType
PoseTypes == {"OverheadArms", "FreeKick"}

\* The timelines of own detections a cycle may find in temporary.
PoseTimelines(T) ==
    {<<>>}
    \cup {<<[time |-> t, item |-> "OverheadArms"]>> : t \in T}
    \cup {<<[time |-> t, item |-> "FreeKick"]>> : t \in {u \in T : u - 1 \notin T}}
    \cup {<<[time |-> q[1], item |-> "OverheadArms"], [time |-> q[2], item |-> q[3]]>> :
            q \in {r \in T \X T \X PoseTypes : r[1] < r[2]}}

\* for (time, message) in messages { if message.over_arms_pose_detected {
\*     times[message.player_number as usize] = Some(time); } }
\* over the IncomingMessage::Spl messages of the timeline, in its order.
RECURSIVE ApplyMessages(_, _)
ApplyMessages(times, messages) ==
    IF messages = <<>> THEN times
    ELSE LET time == Head(messages).time
             message == Head(messages).item
         IN ApplyMessages(
                IF message.kind = "Spl" /\ message.over_arms_pose_detected
                    THEN [times EXCEPT ![message.player_number] = time]
                    ELSE times,
                Tail(messages))

\* .filter_map(|(time, pose_type)| match pose_type {
\*     PoseType::OverheadArms => Some(time), _ => None }).last()
LastOverheadArms(pose_types) ==
    LET overhead(entry) == entry.item = "OverheadArms"
        detections == SelectSeq(pose_types, overhead)
    IN IF detections = <<>> THEN NoTime ELSE detections[Len(detections)].time

\* if time.is_some() { times[player_number as usize] = time; }
ApplyOwn(times, player_number, time) ==
    IF time # NoTime THEN [times EXCEPT ![player_number] = time] ELSE times

\* An update() that keeps the temporary detections in self.
updateKeepingTemporary(self_times, detected_referee_pose_type, player_number, spl_messages) ==
    LET persisted == ApplyOwn(ApplyMessages(self_times, spl_messages.persistent),
                              player_number,
                              LastOverheadArms(detected_referee_pose_type.persistent))
        temporary_pose_detection_times ==
            ApplyOwn(ApplyMessages(persisted, spl_messages.temporary),
                     player_number,
                     LastOverheadArms(detected_referee_pose_type.temporary))
    IN [self |-> temporary_pose_detection_times,
        returned |-> temporary_pose_detection_times]

\* RefereePoseDetectionFilter::update: self.pose_detection_times afterwards
\* and the Vec it returns.
update(self_times, detected_referee_pose_type, player_number, spl_messages) ==
    LET persisted == ApplyOwn(ApplyMessages(self_times, spl_messages.persistent),
                              player_number,
                              LastOverheadArms(detected_referee_pose_type.persistent))
        temporary_pose_detection_times ==
            ApplyOwn(ApplyMessages(persisted, spl_messages.temporary),
                     player_number,
                     LastOverheadArms(detected_referee_pose_type.temporary))
    IN [self |-> persisted, returned |-> temporary_pose_detection_times]

\* f32::ceil(number as f32 * fraction) as usize
CeilOfProduct(number, fraction) ==
    (number * fraction[1] + fraction[2] - 1) \div fraction[2]

\* A minimum that rounds the product down.
determine_minimum_rounding_down(fraction, penalized, hulks_team_is_home_after_coin_toss) ==
    LET counted == IF hulks_team_is_home_after_coin_toss
                      THEN {"Three", "Four", "Five", "Seven"}
                      ELSE {"One", "Two", "Six"}
        number_of_non_penalized_robots == Cardinality(counted \ penalized)
    IN (number_of_non_penalized_robots * fraction[1]) \div fraction[2]

\* RefereePoseDetectionFilter::determine_minimum_overhead_arms_detections
determine_minimum_overhead_arms_detections(fraction, penalized, hulks_team_is_home_after_coin_toss) ==
    LET counted == IF hulks_team_is_home_after_coin_toss
                      THEN {"Three", "Four", "Five", "Seven"}
                      ELSE {"One", "Two", "Six"}
        number_of_non_penalized_robots == Cardinality(counted \ penalized)
    IN CeilOfProduct(number_of_non_penalized_robots, fraction)

\* cycle_start_time.duration_since(earlier_time) is an Err
TimeRanBackwards(cycle_start_time, earlier_time) == earlier_time > cycle_start_time

\* RefereePoseDetectionFilter::in_grace_period, where duration_since is Ok
in_grace_period(cycle_start_time, earlier_time, grace_period) ==
    cycle_start_time - earlier_time < grace_period

\* RefereePoseDetectionFilter::decide: the bool it returns, or the panic of
\* in_grace_period's expect("Time ran backwards").
decide(times, cycle_start_time, fraction, grace_period, penalized, hulks_team_is_home_after_coin_toss) ==
    LET minimum_over_head_arms_detections ==
            determine_minimum_overhead_arms_detections(
                fraction, penalized, hulks_team_is_home_after_coin_toss)
        detected_over_head_arms_poses ==
            Cardinality({p \in PlayerNumbers :
                /\ times[p] # NoTime
                /\ in_grace_period(cycle_start_time, times[p], grace_period)})
    IN IF \E p \in PlayerNumbers :
              times[p] # NoTime /\ TimeRanBackwards(cycle_start_time, times[p])
          THEN [kind |-> "panicked"]
          ELSE [kind |-> "ok",
                initial_to_ready_trigger |->
                    detected_over_head_arms_poses >= minimum_over_head_arms_detections]

\* PerceptionInput with nothing in it
EmptyPerceptionInput == [persistent |-> <<>>, temporary |-> <<>>]

\* RefereePoseDetectionFilter::new: pose_detection_times: vec![None; 7];
\* cycle() has not been called.
InitReferee ==
    /\ pose_detection_times = [p \in PlayerNumbers |-> NoTime]
    /\ cycleContext = [cycle_start_time |-> NoTime,
                       network_message |-> EmptyPerceptionInput,
                       detected_referee_pose_type |-> EmptyPerceptionInput,
                       game_controller_state |-> [penalized |-> {}, home |-> TRUE],
                       fraction |-> <<1, 2>>]
    /\ cycleResult = [kind |-> "none"]

IdleReferee == InitReferee

\* RefereePoseDetectionFilter::cycle, called in an iteration of Control whose
\* game_controller_state is present. The cycle start times increase; what
\* was temporary in the previous iteration is persistent in this one; the
\* temporary entries are stamped at or after the cycle start time.
RefereeCycle ==
    /\ cycleResult.kind # "panicked"
    /\ \E cycle_start_time \in {t \in 1 .. MaxCycleStart : t > cycleContext.cycle_start_time},
          game_controller_state \in GameControllerStates,
          fraction \in Fractions :
        LET T == {t \in FilterTimes : t >= cycle_start_time /\ t <= cycle_start_time + 1}
        IN \E messages \in MessageTimelines(T), pose_types \in PoseTimelines(T) :
            LET network_message ==
                    [persistent |-> cycleContext.network_message.temporary,
                     temporary |-> messages]
                detected_referee_pose_type ==
                    [persistent |-> cycleContext.detected_referee_pose_type.temporary,
                     temporary |-> pose_types]
                updated == update(pose_detection_times, detected_referee_pose_type,
                                  OwnPlayerNumber, network_message)
                decided == decide(updated.returned, cycle_start_time, fraction,
                                  GracePeriod, game_controller_state.penalized,
                                  game_controller_state.home)
            IN /\ pose_detection_times' = updated.self
               /\ cycleContext' = [cycle_start_time |-> cycle_start_time,
                                   network_message |-> network_message,
                                   detected_referee_pose_type |-> detected_referee_pose_type,
                                   game_controller_state |-> game_controller_state,
                                   fraction |-> fraction]
               /\ cycleResult' =
                    IF decided.kind = "ok"
                        THEN [kind |-> "ok",
                              pose_detection_times |-> updated.returned,
                              initial_to_ready_trigger |-> decided.initial_to_ready_trigger]
                        ELSE decided
    /\ UNCHANGED <<varsCyclers, varsWalk, varsNms>>

NextReferee ==
    \/ RefereeCycle


\* ------------------------------------------------------------------------
\* non_maximum_suppression (object_detection/src/pose_detection.rs)
\* ------------------------------------------------------------------------
\* Longest candidate list tried.
MaxCandidates == 3

\* The scores tried; equal scores occur.
Scores == 1 .. 2

\* The bounding boxes tried, each as the set of cells it covers.
Boxes == {{1}, {1, 2}, {2, 3}}

\* The values of iou_threshold tried, as <<numerator, denominator>>.
Thresholds == {<<1, 2>>, <<1, 1>>}

\* A HumanPose: its place in the argument tells equal poses apart.
HumanPoses == [id : 1 .. MaxCandidates, bounding_box : [score : Scores, area : Boxes]]

\* The candidate lists tried: the pose at place i has the id i.
CandidateLists ==
    UNION {{c \in [1 .. n -> HumanPoses] : \A i \in 1 .. n : c[i].id = i} :
             n \in 0 .. MaxCandidates}

\* BoundingBox::iou(&other) < iou_threshold: intersection over union, the
\* comparison cleared of the division.
IouBelow(box, other, iou_threshold) ==
    Cardinality(box.area \cap other.area) * iou_threshold[2]
        < iou_threshold[1] * Cardinality(box.area \cup other.area)

\* sort_unstable_by(|pose1, pose2| score1.total_cmp(&score2)): the list in
\* ascending order of score, equal scores in any order.
SortedByScore(list) ==
    {[i \in DOMAIN list |-> list[perm[i]]] :
        perm \in {f \in [DOMAIN list -> DOMAIN list] :
                    /\ \A i, j \in DOMAIN list : i # j => f[i] # f[j]
                    /\ \A i, j \in DOMAIN list :
                          i < j => list[f[i]].bounding_box.score
                                      <= list[f[j]].bounding_box.score}}

\* A filter that lets every candidate through.
KeepsAll(detection, detection_candidate, iou_threshold) == TRUE

\* |detection_candidate| detection.bounding_box.iou(&detection_candidate.bounding_box)
\*     < iou_threshold
Keeps(detection, detection_candidate, iou_threshold) ==
    IouBelow(detection.bounding_box, detection_candidate.bounding_box, iou_threshold)

\* non_maximum_suppression has not been called.
NoCall == [candiate_pose |-> <<>>, iou_threshold |-> <<0, 1>>, called |-> FALSE]

InitNms ==
    /\ nmsCall = NoCall
    /\ candiate_pose = <<>>
    /\ poses = <<>>

IdleNms == InitNms

\* The call, one to a behaviour: let mut poses = Vec::new();
\* candiate_pose.sort_unstable_by(..);
NmsCall ==
    /\ ~nmsCall.called
    /\ \E list \in CandidateLists, iou_threshold \in Thresholds :
        /\ nmsCall' = [candiate_pose |-> list, iou_threshold |-> iou_threshold,
                       called |-> TRUE]
        /\ \E sorted \in SortedByScore(list) : candiate_pose' = sorted
    /\ poses' = <<>>
    /\ UNCHANGED <<varsCyclers, varsWalk, varsReferee>>

\* One turn of while let Some(detection) = candiate_pose.pop() { .. }:
\* the last candidate is taken, the others are filtered, it is pushed.
NmsIteration ==
    /\ candiate_pose # <<>>
    /\ LET detection == candiate_pose[Len(candiate_pose)]
           rest == SubSeq(candiate_pose, 1, Len(candiate_pose) - 1)
           keeps(detection_candidate) ==
               Keeps(detection, detection_candidate, nmsCall.iou_threshold)
       IN /\ candiate_pose' = SelectSeq(rest, keeps)
          /\ poses' = Append(poses, detection)
    /\ UNCHANGED nmsCall
    /\ UNCHANGED <<varsCyclers, varsWalk, varsReferee>>

NextNms ==
    \/ NmsCall
    \/ NmsIteration


NextStarting ==
    \/ EnterStarting
    \/ StartingTick
    \/ CallStand
    \/ CallWalk
    \/ CallKick

IdleNodes == IdleWalk /\ IdleReferee /\ IdleNms

IdleBuf == InitBuf

IdleCyclers == IdleBuf /\ IdleRT /\ IdleCyc /\ IdleReplay

InitStarting == InitWalk /\ IdleCyclers /\ IdleReferee /\ IdleNms

SpecStarting == InitStarting /\ [][NextStarting]_vars

InitSpecReferee == InitReferee /\ IdleCyclers /\ IdleWalk /\ IdleNms

SpecReferee == InitSpecReferee /\ [][NextReferee]_vars

InitSpecNms == InitNms /\ IdleCyclers /\ IdleWalk /\ IdleReferee

SpecNms == InitSpecNms /\ [][NextNms]_vars

\* The loop runs in the thread of the caller, which is scheduled: a turn of
\* the loop that can be taken is taken.
SpecNmsFair == SpecNms /\ WF_vars(NmsIteration)


NextReplay ==
    \/ LiveRecord
    \/ ReplayCall
    \/ ReplaySetupNode
    \/ ReplayLockReaders
    \/ ReplayExtract
    \/ ReplayCycleNode
    \/ ReplayReturnOk
    \/ ReplayReturnError

InitSpecReplay == InitReplay /\ IdleCyc /\ InitBuf /\ InitRT /\ IdleNodes

SpecReplay == InitSpecReplay /\ [][NextReplay]_vars

NextRT ==
    \/ \E p \in PerceptionInstances : ProducerAnnounce(p)
    \/ \E p \in PerceptionInstances : ProducerFinalize(p)
    \/ RealTimeNow
    \/ RealTimeConsume
    \/ RealTimePerceptionUpdate
    \/ RealTimeCycleNodes
    \/ RealTimeHistoricUpdate

InitSpecRT == InitRT /\ IdleBuf /\ IdleCyc /\ IdleReplay /\ IdleNodes

SpecRT == InitSpecRT /\ [][NextRT]_vars

Init == InitCyc /\ IdleBuf /\ IdleRT /\ IdleReplay /\ IdleNodes

Spec == Init /\ [][Next]_vars

\* V and A as the threads of one group, recording switched off.
InitGroup == IdleCyc /\ IdleBuf /\ IdleRT /\ IdleReplay /\ IdleNodes

SpecGroup == InitGroup /\ [][NextGroup]_vars

\* V alone, recording switched off, under reloads of the Parameters.
SpecParameters == InitGroup /\ [][NextParameters]_vars

\* V alone, recording switched off, under changes of the subscriptions.
SpecSubscriptions == InitGroup /\ [][NextSubscriptions]_vars

\* Each thread is scheduled by the operating system: a thread that can take a
\* step is not held back for ever. Nothing obliges the outside to cancel.
SpecGroupFair ==
    /\ SpecGroup
    /\ WF_vars(ThreadOfV)
    /\ WF_vars(ThreadOfA)

NextBuf ==
    \/ WriterNext
    \/ WriterSetupNodes
    \/ WriterCycleNodes
    \/ WriterDrop
    \/ \E r \in PerceptionInstances : ReaderNext(r)
    \/ \E r \in PerceptionInstances : ReaderDrop(r)

InitSpecBuf == InitBuf /\ IdleRT /\ IdleCyc /\ IdleReplay /\ IdleNodes

SpecBuf == InitSpecBuf /\ [][NextBuf]_vars

\* The threads are scheduled by the operating system: no thread that can take
\* a step is held back for ever.
SpecBufFair ==
    /\ SpecBuf
    /\ WF_vars(WriterNext \/ WriterSetupNodes \/ WriterCycleNodes \/ WriterDrop)
    /\ \A r \in PerceptionInstances : WF_vars(ReaderNext(r)) /\ WF_vars(ReaderDrop(r))

DataOf(batch) == [i \in DOMAIN batch |-> batch[i].data]

\* A's iteration is past perception_databases.update and has not yet taken a new now.
AfterUpdate == now /= NoTime /\ rpc \in {"cycle", "historic", "now"}

\* A's iteration is past historic_databases.update.
AfterHistoricUpdate == now /= NoTime /\ rpc = "now"

\* C3: what consume() has returned so far, followed by what is still queued, is
\* exactly the sequence of finalized snapshots in finalize order (each once),
\* and a consume() call returns everything finalized before it.
C3_ExactlyOnceInOrder ==
    \A p \in PerceptionInstances :
        /\ DataOf(delivered[p] \o queue[p]) = [i \in 1 .. finalized[p] |-> i]
        /\ Len(delivered[p]) = finAtConsume[p]

\* One consume() call returned a batch of two snapshots, after an earlier call
\* had returned nothing for the other instance.
C3_Witness ==
    /\ rpc = "update"
    /\ \E p \in PerceptionInstances : Len(updates[p]) = 2
    /\ \E p \in PerceptionInstances : Len(updates[p]) = 0 /\ Len(queue[p]) = 1

C6_HistoricUpdate ==
    AfterHistoricUpdate =>
        /\ \A t \in DOMAIN historic : lastHorizon = NoTime \/ t >= lastHorizon
        /\ \A t \in DOMAIN prevHistoric :
            (lastHorizon = NoTime \/ t >= lastHorizon) =>
                HistoricQuery(historic, t) = <<prevHistoric[t]>>
        /\ (lastHorizon = NoTime \/ now >= lastHorizon) =>
                HistoricQuery(historic, now) = <<outputs>>
        /\ \A t \in Times :
            (lastHorizon /= NoTime /\ t < lastHorizon) => HistoricQuery(historic, t) = <<>>
        /\ \A t \in Times :
            (t /= now /\ t \notin DOMAIN prevHistoric) => HistoricQuery(historic, t) = <<>>

\* An update evicted an older entry and kept one at the horizon besides the
\* inserted one.
C6_Witness ==
    /\ AfterHistoricUpdate
    /\ lastHorizon /= NoTime
    /\ \E t \in DOMAIN prevHistoric : t < lastHorizon
    /\ \E t \in DOMAIN prevHistoric : t >= lastHorizon /\ t \in DOMAIN historic
    /\ now \in DOMAIN historic

\* C7: the horizon given to historic_databases.update is the earliest timestamp
\* of the temporary perception databases, and no historic entry at or after
\* the earliest temporary timestamp has been evicted.
C7_HorizonKeepsNeeded ==
    AfterHistoricUpdate =>
        /\ lastHorizon = FirstTimestampOfTemporaryDatabases(temporary)
        /\ DOMAIN temporary /= {} =>
                \A t \in evicted : t < MinOf(DOMAIN temporary)

\* The RequiredInput fields of node n are all present in the Databases the
\* running iteration reads them from.
AllRequiredPresent(n) ==
    CASE n = "S1" -> TRUE
      [] n = "S2" -> own_database.s1 /= None
      [] n = "N1" -> a_database.x /= None
      [] n = "N2" -> own_database.s2 /= None /\ own_database.n1 /= None

\* The positions of cycle() after the setup nodes and after all nodes.
AfterSetupNodes ==
    {"post_setup", "lock_readers", "cross_inputs", "cycle", "finalize", "send", "drop", "notify"}

AfterAllNodes == {"finalize", "send", "drop", "notify"}

C9_AbsentInputIsNotAnError ==
    /\ threadResult.kind /= "panic"
    /\ pc /= "panicked"

\* C10: after a node's cycle() has returned an error, no later node of that
\* iteration is invoked, no further iteration starts, the token is cancelled
\* and the thread's result is that error.
C10_NodeErrorCancels ==
    failure.source \in Nodes =>
        /\ pc \in {"return_err", "cycle_err", "done"}
        /\ cycles = failure.cycle
        /\ status[failure.source] = "failed"
        /\ \A m \in Nodes :
            PositionOf(m) > PositionOf(failure.source) => status[m] = "pending"
        /\ pc = "done" =>
            /\ cancelled
            /\ threadResult = [kind |-> "err", error |-> failure]

\* C10 witness: the thread has ended with the error N1 returned in the second
\* iteration, after the setup nodes of that iteration had run.
C10_Witness ==
    /\ pc = "done"
    /\ cancelled
    /\ threadResult.kind = "err"
    /\ failure = [source |-> "N1", cycle |-> 2]
    /\ status["S2"] = "ran"
    /\ status["N2"] = "pending"
    /\ notified = 1

\* ------------------------------------------------------------------------
\* A thread has ended: its closure returned, or it panicked.
EndedV == pc \in {"done", "panicked"}

EndedA == aPc = "done"

\* C11: once keep_running is cancelled, by a failed iteration or from
\* outside, every thread of the group eventually ends.
C11_CancellationLiveness == cancelled ~> (EndedV /\ EndedA)

\* C12: a thread that ends because it saw keep_running cancelled by the
\* failure of the other thread returns that failure as its result.
C12_SiblingsSurfaceError ==
    /\ (cancelledBy = "V" /\ aPc = "done" /\ aResult /= [kind |-> "err", error |-> PeerFailure])
            => aResult = [kind |-> "err", error |-> failure]
    /\ (cancelledBy = "A" /\ pc = "done" /\ failure = NoFailure)
            => threadResult = [kind |-> "err", error |-> PeerFailure]

\* C13: once keep_running is cancelled no thread starts a further iteration:
\* the loop-top check of a cancelled token leads only to the end of the
\* thread, the number of cycle() calls does not grow any more, a thread that
\* has ended stays ended, and the token stays cancelled.
C13_CancelledIsTerminal ==
    [][/\ cancelled => cycles' = cycles
       /\ cancelled => cancelled'
       /\ (cancelled /\ pc = "loop") => pc' \in {"loop", "done"}
       /\ (cancelled /\ aPc = "loop") => aPc' \in {"loop", "done"}
       /\ pc = "done" => pc' = "done"
       /\ aPc = "done" => aPc' = "done"]_vars

\* C13 witness: the token was cancelled from outside before the first check
\* of either thread; both have ended with Ok(()) without an iteration.
C13_Witness ==
    /\ cancelledBy = "external"
    /\ pc = "done"
    /\ cycles = 0
    /\ threadResult = [kind |-> "ok"]
    /\ aPc = "done"
    /\ ~aPublished

\* The frame try_send is given in the running iteration.
OfferedFrame == [instance |-> "V", timestamp |-> vnow, data |-> recording_frame]

\* C14: an iteration that finds the recording channel full returns an error:
\* nothing of it is enqueued, it is not counted as a successful cycle(), and
\* the thread cancels keep_running and ends with that error. An iteration
\* with recording enabled that goes on after try_send has enqueued its frame.
C14_SinkFullFailsIteration ==
    /\ [](failure.source = "recording_sender" =>
            /\ pc \in {"return_err", "cycle_err", "done"}
            /\ cycles = failure.cycle
            /\ notified < cycles
            /\ \A k \in DOMAIN recording_sender : recording_sender[k].timestamp /= vnow
            /\ pc = "done" =>
                /\ cancelled
                /\ threadResult = [kind |-> "err", error |-> failure])
    /\ [][(pc = "send" /\ enable_recording /\ pc' /= "send") =>
            IF Len(recording_sender) < SinkCapacity
                THEN pc' = "drop" /\ recording_sender' = Append(recording_sender, OfferedFrame)
                ELSE pc' = "return_err" /\ recording_sender' = recording_sender]_vars

\* C14 witness: the thread has ended with the error of a full channel, which
\* still holds the frames of earlier iterations.
C14_Witness ==
    /\ pc = "done"
    /\ cancelled
    /\ failure = [source |-> "recording_sender", cycle |-> cycles]
    /\ threadResult = [kind |-> "err", error |-> failure]
    /\ Len(recording_sender) = SinkCapacity
    /\ status["N2"] /= "pending"

\* The payload of a complete iteration: the main outputs of the setup nodes,
\* the cross inputs, the states of the cycle nodes.
FrameLayout ==
    [k \in DOMAIN SetupNodes |->
        [kind |-> "main_output", name |-> MainOutput(SetupNodes[k]),
         value |-> own_database[MainOutput(SetupNodes[k])]]]
    \o [k \in DOMAIN CrossInputOrder |->
        [kind |-> "required_input", name |-> CrossInputOrder[k][2],
         value |-> a_database[CrossInputOrder[k][2]]]]
    \o [k \in DOMAIN CycleNodes |-> [kind |-> "node", name |-> CycleNodes[k], value |-> None]]

HasEntry(kind, name) ==
    \E k \in DOMAIN recording_frame :
        recording_frame[k].kind = kind /\ recording_frame[k].name = name

Recorded == liveLog[replayIndex]

\* C15: after the frames of the first k recorded iterations have been
\* replayed in order, the replaying cycler has published the main outputs the
\* k-th iteration produced live.
C15_RoundTrip ==
    (rpPc = "idle" /\ replayIndex >= 1) => replayCommitted = Recorded.outputs

\* C17: in a replayed iteration a cycle node that requires an output of A
\* runs exactly if it ran in the recorded iteration, whatever the Reader of
\* the replaying process holds.
C17_GatingFromFrame ==
    \A k \in DOMAIN CycleNodes :
        LET n == CycleNodes[k]
        IN (/\ rpPc /= "recording"
            /\ replayGenuine
            /\ \E i \in RequiredInputs(n) : i[1] /= "own"
            /\ replayStatus[n] \in {"ran", "skipped"})
                => (replayStatus[n] = "ran" <=> n \in Recorded.ran)

\* The RequiredInput fields of n are present in the Databases the replaying
\* call reads them from.
ReplayRequiredPresent(n) ==
    CASE n = "S1" -> TRUE
      [] n = "S2" -> replayDatabase.s1 /= None
      [] n = "N1" -> replayReader.x /= None
      [] n = "N2" -> replayDatabase.s2 /= None /\ replayDatabase.n1 /= None

C19_CorruptFrameAborts ==
    (rpPc /= "recording" /\ ~replayGenuine) =>
        /\ rpPc \in {"setup", "lock_readers", "extract", "cycle", "return_err", "failed"}
        /\ replayNotified = replayIndex - 1
        /\ rpPc \in {"return_err", "failed"} =>
            /\ \A k \in DOMAIN SetupNodes :
                k > replayConsumed => replayStatus[SetupNodes[k]] = "pending"
            /\ \A k \in DOMAIN CycleNodes :
                Len(SetupNodes) + Len(CrossInputOrder) + k > replayConsumed
                    => replayStatus[CycleNodes[k]] = "pending"

\* C19 witness: the second frame was cut before the state of N2; the call
\* failed after N1 had been gone through, N2 was not, and only the first call
\* was notified.
C19_Witness ==
    /\ rpPc = "failed"
    /\ ~replayGenuine
    /\ replayIndex = 2
    /\ replayNotified = 1
    /\ replayConsumed = Len(SetupNodes) + Len(CrossInputOrder) + 1
    /\ replayStatus["N1"] /= "pending"
    /\ replayStatus["N2"] = "pending"

\* ------------------------------------------------------------------------
\* The post-processing of the running iteration is done: the Producer has
\* finalized this iteration's main outputs.
PostProcessed ==
    /\ ~vAnnounced
    /\ Len(vQueue) = cycles
    /\ vQueue[cycles].data = own_database

\* C22 as stated: post-processing precedes the publish and the notification,
\* and the frame is offered to the channel only after this iteration's
\* Database was published and own_changed notified.
C22_Original ==
    /\ pc \in {"drop", "notify"} => PostProcessed
    /\ (pc = "send" /\ enable_recording) => notified = cycles

\* C22: post-processing precedes the offer of the frame, the offer precedes
\* the publish, and the publish precedes the notification: the frame is
\* offered while the writer's guard is still held and before own_changed is
\* notified, the notification follows a publish of what the nodes wrote and,
\* with recording, an accepted frame, and an iteration that found the channel
\* full is never notified although leaving cycle() has published its Database.
C22_IterationOrder ==
    /\ [](pc \in {"send", "drop", "notify"} => PostProcessed)
    /\ [](pc \in {"send", "drop", "notify"} => notified = cycles - 1)
    /\ [](pc = "notify" => (ownCommitted = own_database /\ failure = NoFailure))
    /\ [](failure.source = "recording_sender" =>
            /\ notified = cycles - 1
            /\ PostProcessed
            /\ pc \in {"cycle_err", "done"} => ownCommitted = own_database)
    /\ [][/\ pc = "finalize" => pc' \in {"finalize", "send"}
          /\ pc = "send" => pc' \in {"send", "drop", "return_err"}
          /\ pc = "drop" => pc' \in {"drop", "notify"}
          /\ (pc = "drop" /\ pc' = "notify") => ownCommitted' = own_database
          /\ pc = "notify" => pc' \in {"notify", "loop"}
          /\ (pc = "notify" /\ pc' = "loop") => notified' = notified + 1]_vars

\* C22 witness: in the second iteration the frame of the iteration is in the
\* channel while the writer's guard is still held and nothing was notified.
C22_Witness ==
    /\ pc = "drop"
    /\ cycles = 2
    /\ enable_recording
    /\ notified = 1
    /\ \E k \in DOMAIN recording_sender : recording_sender[k].timestamp = vnow
    /\ ownCommitted /= own_database

\* The positions of cycle() between announce() and finalize().
BetweenAnnounceAndFinalize == {"lock_readers", "cross_inputs", "cycle", "finalize"}

\* The node whose error ended the iteration is a setup node, or a cycle node.
FailedInSetup == \E k \in DOMAIN SetupNodes : failure.source = SetupNodes[k]

FailedInCycle == \E k \in DOMAIN CycleNodes : failure.source = CycleNodes[k]

\* C27: announce() and finalize() of own_producer alternate, announce()
\* first: announce() is called only with no announcement open, once per
\* iteration, after the setup nodes and before any cycle node; finalize() is
\* called only with an announcement open, once, after every cycle node has
\* run or was skipped, and with the main outputs as they stand then; an
\* iteration that fails in a setup node calls neither, one that fails in a
\* cycle node has announced and does not finalize.
C27_AnnounceFinalizeAlternate ==
    /\ [][/\ (pc = "post_setup" /\ pc' /= "post_setup") => (~vAnnounced /\ vAnnounced')
          /\ (pc = "finalize" /\ pc' /= "finalize") =>
                /\ vAnnounced /\ ~vAnnounced'
                /\ vQueue' = Append(vQueue, [timestamp |-> hwTime', data |-> own_database])
                /\ \A n \in Nodes : status[n] \in {"ran", "skipped"}
          /\ vAnnounced' /= vAnnounced => pc \in {"post_setup", "finalize"}
          /\ vQueue' /= vQueue => pc = "finalize"]_vars
    /\ [](pc \in BetweenAnnounceAndFinalize =>
            /\ vAnnounced
            /\ Len(vQueue) = cycles - 1
            /\ \A k \in DOMAIN SetupNodes : status[SetupNodes[k]] \in {"ran", "skipped"})
    /\ [](pc \in {"lock_readers", "cross_inputs"} =>
            \A k \in DOMAIN CycleNodes : status[CycleNodes[k]] = "pending")
    /\ [](pc \in {"begin", "setup", "post_setup"} =>
            (~vAnnounced /\ Len(vQueue) = cycles - 1))
    /\ [](FailedInSetup => (~vAnnounced /\ Len(vQueue) = cycles - 1))
    /\ [](FailedInCycle => (vAnnounced /\ Len(vQueue) = cycles - 1))

\* C27 witness: the second iteration failed in the cycle node N2 after its
\* announce(); the first one was announced and finalized.
C27_Witness ==
    /\ pc = "done"
    /\ cycles = 2
    /\ failure.source = "N2"
    /\ vAnnounced
    /\ Len(vQueue) = 1

\* The positions of the thread inside a cycle() call that has not returned.
InsideCycle ==
    {"begin", "setup", "post_setup", "lock_readers", "cross_inputs", "cycle", "finalize",
     "send", "drop", "notify", "return_err"}

\* C28: own_changed.notify_one() is called once by every cycle() call that
\* returns Ok(()), after post-processing, after the guard of own_writer and
\* the reader guards were dropped, and, with recording, after the frame was
\* accepted; a call that returns an error, for a node or for the full
\* channel, and a call that panics do not notify.
C28_NotifyOncePerSuccess ==
    /\ [](pc \in InsideCycle => notified = cycles - 1)
    /\ [](pc = "loop" => notified = cycles)
    /\ [](pc \in {"cycle_err", "panicked"} => notified = cycles - 1)
    /\ [](pc = "done" =>
            notified = IF threadResult.kind = "err" THEN cycles - 1 ELSE cycles)
    /\ [][notified' /= notified =>
            /\ pc = "notify" /\ pc' = "loop"
            /\ notified' = notified + 1
            /\ failure = NoFailure
            /\ PostProcessed
            /\ ownCommitted = own_database
            /\ locked = {}]_vars

\* C28 witness: the first call was notified, the second found the channel
\* full and was not.
C28_Witness ==
    /\ pc = "cycle_err"
    /\ cycles = 2
    /\ notified = 1
    /\ failure.source = "recording_sender"

\* The kinds of the fields of a complete frame, in their order.
CompleteKinds ==
    [k \in DOMAIN SetupNodes |-> "main_output"]
    \o [k \in DOMAIN CrossInputOrder |-> "required_input"]
    \o [k \in DOMAIN CycleNodes |-> "node"]

KindsOf(frame) == [k \in DOMAIN frame |-> frame[k].kind]

\* C30: enable_recording is assigned once, at the start of the iteration, as
\* self.enable_recording && should_record(), and every recording step of the
\* iteration follows it: with false nothing is serialized and nothing is
\* sent; with true an iteration that succeeds sends exactly one frame, with
\* the own instance, the iteration's now and the complete payload, and no
\* frame in the channel is a partial one.
C30_RecordingDecision ==
    /\ [][/\ (enable_recording' /= enable_recording) => pc = "begin"
          /\ (pc = "begin" /\ pc' /= "begin") => (enable_recording' => self_enable_recording)
          /\ (Len(recording_sender') > Len(recording_sender)) =>
                /\ pc = "send" /\ pc' = "drop"
                /\ enable_recording
                /\ recording_sender' = Append(recording_sender, OfferedFrame)
                /\ recording_frame = FrameLayout
          /\ (pc = "send" /\ pc' = "drop" /\ enable_recording) =>
                Len(recording_sender') = Len(recording_sender) + 1]_vars
    /\ []((pc \in InsideCycle /\ pc /= "begin" /\ ~enable_recording) =>
            recording_frame = <<>>)
    /\ [](\A k \in DOMAIN recording_sender :
            /\ recording_sender[k].instance = "V"
            /\ recording_sender[k].timestamp \in 1 .. vnow
            /\ KindsOf(recording_sender[k].data) = CompleteKinds
            /\ \A j \in DOMAIN recording_sender :
                j /= k => recording_sender[j].timestamp /= recording_sender[k].timestamp)
    /\ []((pc = "notify" /\ enable_recording) => failure = NoFailure)

\* C30 witness: recording is switched on for the cycler; the first iteration
\* was recorded and its frame is in the channel, the second one was not and
\* ends with an empty recording_frame.
C30_Witness ==
    /\ pc = "notify"
    /\ cycles = 2
    /\ self_enable_recording
    /\ ~enable_recording
    /\ recording_frame = <<>>
    /\ Len(recording_sender) = 1
    /\ recording_sender[1].timestamp < vnow

ConsumedAt(position, index) ==
    CASE position = "setup" -> index - 1
      [] position \in {"lock_readers", "extract"} -> Len(SetupNodes)
      [] position = "cycle" -> Len(SetupNodes) + Len(CrossInputOrder) + index - 1
      [] OTHER -> Len(SetupNodes) + Len(CrossInputOrder) + Len(CycleNodes)

\* C24: a call that is given the frame as it was recorded reads the fields in
\* the order they were written, each as a value of the kind it was written
\* as: the main outputs of the setup nodes, the cross inputs, the state of
\* each cycle node. No deserialization fails, the frame is used up exactly
\* at the end, every value read is the value written at that place, and this
\* does not depend on which nodes the gating lets run in the replay.
C24_SameFieldOrder ==
    /\ \A k \in DOMAIN liveLog : KindsOf(liveLog[k].frame) = CompleteKinds
    /\ (rpPc /= "recording" /\ replayGenuine) =>
        /\ rpPc \notin {"return_err", "failed"}
        /\ replayConsumed = ConsumedAt(rpPc, replayNodeIndex)
        /\ replayFrame = SubSeq(Recorded.frame, replayConsumed + 1, Len(Recorded.frame))
        /\ \A k \in DOMAIN SetupNodes :
            k <= replayConsumed =>
                replayDatabase[MainOutput(SetupNodes[k])] = Recorded.frame[k].value
        /\ replayConsumed > Len(SetupNodes) =>
                replayExtraction = Recorded.frame[Len(SetupNodes) + 1].value
        /\ \A k \in DOMAIN CycleNodes :
            replayStatus[CycleNodes[k]] = "skipped" =>
                replayNodes[CycleNodes[k]] =
                    Recorded.frame[Len(SetupNodes) + Len(CrossInputOrder) + k].value
        /\ rpPc \in {"finalize", "idle"} => replayFrame = <<>>

\* C24 witness: the second frame was read to its end by a call in which N1,
\* which ran when the frame was recorded, was skipped.
C24_Witness ==
    /\ rpPc = "idle"
    /\ replayGenuine
    /\ replayIndex = 2
    /\ "N1" \in Recorded.ran
    /\ replayStatus["N1"] = "skipped"
    /\ replayFrame = <<>>
    /\ replayConsumed = Len(Recorded.frame)

\* Every content the buffer own_writer.next() hands out may have.
AllBuffers ==
    [s1 : {None} \cup Payloads, s2 : {None} \cup Payloads,
     n1 : {None} \cup Payloads, n2 : {None} \cup Payloads]

\* C29: in an iteration that succeeds every main output is assigned, from
\* what its node returned or, for a node that was skipped, to the default:
\* the main outputs it publishes do not depend on what the buffer held when
\* own_writer.next() handed it out.
C29_NoStaleMainOutput ==
    /\ \A k \in DOMAIN liveLog : \A n \in Nodes :
        n \notin liveLog[k].ran => liveLog[k].outputs[MainOutput(n)] = DefaultOutput
    /\ replayIndex = 0 =>
        \A hw \in HardwareReadings, x \in Payloads, buffer \in AllBuffers :
            LiveCycle(buffer, liveNodes, hw, x).own = LiveCycle(LiveBuffer, liveNodes, hw, x).own

\* C29 witness: the third iteration wrote into the buffer of the first, which
\* held an output of S2; S2 and N2 were skipped and their outputs are the
\* default.
C29_Witness ==
    /\ Len(liveLog) = 3
    /\ liveLog[1].outputs.s2 /= None
    /\ liveLog[1].outputs.n2 /= None
    /\ "S2" \notin liveLog[3].ran
    /\ "N2" \notin liveLog[3].ran
    /\ liveLog[3].outputs.s2 = None
    /\ liveLog[3].outputs.n2 = None


\* ------------------------------------------------------------------------
\* C21: within one iteration the Parameters are sampled a single time, so
\* every setup node and every cycle node that ran in the iteration was handed
\* the same Parameters, whatever is reloaded meanwhile. The block of the
\* setup nodes and the block of the cycle nodes each call
\* parameters_reader.next(), so a reload between the two is seen by the cycle
\* nodes only, and this statement does not hold of the thread.
C21_SingleParametersSnapshot ==
    \A n, m \in Nodes :
        (observedParameters[n] # NoSnapshot /\ observedParameters[m] # NoSnapshot)
            => observedParameters[n] = observedParameters[m]

\* What the thread does guarantee: the nodes of one block are handed the
\* same Parameters, those the reader held when the block began.
C21_OneSnapshotPerBlock ==
    /\ \A i, j \in 1 .. Len(SetupNodes) :
           (observedParameters[SetupNodes[i]] # NoSnapshot
               /\ observedParameters[SetupNodes[j]] # NoSnapshot)
               => observedParameters[SetupNodes[i]] = observedParameters[SetupNodes[j]]
    /\ \A i, j \in 1 .. Len(CycleNodes) :
           (observedParameters[CycleNodes[i]] # NoSnapshot
               /\ observedParameters[CycleNodes[j]] # NoSnapshot)
               => observedParameters[CycleNodes[i]] = observedParameters[CycleNodes[j]]

\* A setup node and a cycle node of one iteration were handed different
\* Parameters.
C21_Diverged ==
    \E i \in 1 .. Len(SetupNodes), j \in 1 .. Len(CycleNodes) :
        /\ observedParameters[SetupNodes[i]] # NoSnapshot
        /\ observedParameters[CycleNodes[j]] # NoSnapshot
        /\ observedParameters[SetupNodes[i]] # observedParameters[CycleNodes[j]]


\* ------------------------------------------------------------------------
\* C26: the AdditionalOutput of a node is computed and written in an
\* iteration only if the set of subscribed outputs, as the node's block read
\* it in that iteration, holds a path matching "additional_outputs.<path>";
\* a node that runs without such a subscription computes and writes nothing.
\* The set is read from the reader when a block begins and at no other time.
Matches(subscribed, n) ==
    \E subscribed_output \in subscribed, path \in AdditionalOutputs(n) :
        ShouldBeFilled(subscribed_output, <<"additional_outputs">> \o path)

C26_FilledOnlyIfSubscribed ==
    [][/\ \A n \in Nodes :
            /\ (filled'[n] /\ ~filled[n]) => Matches(own_subscribed_outputs, n)
            /\ (observedParameters[n] = NoSnapshot /\ observedParameters'[n] # NoSnapshot
                   /\ ~Matches(own_subscribed_outputs, n)) => ~filled'[n]
       /\ IF pc \in {"begin", "post_setup"} /\ pc' # pc
             THEN own_subscribed_outputs' = own_subscribed_outputs_reader
             ELSE own_subscribed_outputs' = own_subscribed_outputs]_vars

\* In one iteration a node with a matching subscription has filled its
\* output, another node has run without filling, and the outside has changed
\* the set since the block read it.
C26_Witness ==
    /\ \E n, m \in Nodes :
           /\ filled[n]
           /\ observedParameters[m] # NoSnapshot
           /\ ~filled[m]
    /\ own_subscribed_outputs_reader # own_subscribed_outputs
    /\ ~Matches(own_subscribed_outputs_reader, "N1")
    /\ filled["N1"]


\* ------------------------------------------------------------------------
\* C31: a thread whose result is an error has set keep_running cancelled, a
\* thread returns Ok(()) only from a loop-top check that saw keep_running
\* cancelled, and no thread has terminated while keep_running is not
\* cancelled. A thread that panics in cycle() unwinds out of the closure
\* without reaching keep_running.cancel(), so the last part does not hold of
\* the thread of V.
C31_TerminatesOnlyCancelled ==
    [][/\ threadResult'.kind = "err" => cancelled'
       /\ (threadResult'.kind = "ok" /\ threadResult.kind # "ok")
              => (pc = "loop" /\ cancelled)
       /\ EndedV' => cancelled'
       /\ EndedA' => cancelled']_vars

\* What holds of a thread whose closure returns: it returns with
\* keep_running cancelled, an error after its own cancel() and Ok(()) from a
\* loop-top check.
C31_ReturnsOnlyCancelled ==
    [][/\ threadResult'.kind = "err" => cancelled'
       /\ (threadResult'.kind = "ok" /\ threadResult.kind # "ok")
              => (pc = "loop" /\ cancelled)
       /\ pc' = "done" => cancelled'
       /\ EndedA' => cancelled']_vars

\* The thread of V has terminated by a panic and keep_running is not
\* cancelled.
C31_PanickedUncancelled == pc = "panicked" /\ ~cancelled


\* ------------------------------------------------------------------------
\* The step is a call of stand(), walk() or kick() on a Starting.
StartingCalled(name) == mode.kind = "Starting" /\ transition'.name = name

\* C32: a stand(), walk() or kick() called on a Starting whose step has
\* neither switched support nor timed out gives Mode::Starting with the step
\* unchanged; stand() leaves Starting only for Standing, walk() only for
\* Walking, kick() only for Walking or Kicking.
C32_StartingStaysOrLeaves ==
    [][/\ \A name \in {"stand", "walk", "kick"} :
            (/\ StartingCalled(name)
             /\ ~transition'.is_support_switched
             /\ ~transition'.is_timeouted)
                => (mode'.kind = "Starting" /\ mode'.step = mode.step)
       /\ StartingCalled("stand") => mode'.kind \in {"Starting", "Standing"}
       /\ StartingCalled("walk") => mode'.kind \in {"Starting", "Walking"}
       /\ StartingCalled("kick") => mode'.kind \in {"Starting", "Walking", "Kicking"}]_vars

\* C32 witness: kick() was called on a step that had been ticked and had
\* neither switched nor timed out, and the engine holds that step still.
C32_Witness ==
    /\ transition.name = "kick"
    /\ ~transition.is_support_switched
    /\ ~transition.is_timeouted
    /\ transition.self.step.ticks > 0
    /\ mode = transition.self

\* C33: kick() gives Kicking only when the step has not timed out, support
\* has switched and the kick side is not the next support side, the opposite
\* of the plan's support side; when the step has timed out, switched or not,
\* or support has switched onto the kick side, it gives Walking with a zero
\* requested step.
C33_KickDecision ==
    [][StartingCalled("kick") =>
          LET next_support_side == Opposite(mode.step.plan.support_side)
              timeouted == transition'.is_timeouted
              switched == transition'.is_support_switched
              kick_side == transition'.kick_side
          IN /\ mode'.kind = "Kicking"
                    => (~timeouted /\ switched /\ kick_side # next_support_side)
             /\ (timeouted \/ (switched /\ next_support_side = kick_side))
                    => (mode'.kind = "Walking" /\ mode'.requested_step = "ZERO")
             /\ (~timeouted /\ switched /\ kick_side # next_support_side)
                    => (/\ mode'.kind = "Kicking"
                        /\ mode'.kick.side = kick_side
                        /\ mode'.kick.variant = transition'.variant)]_vars

\* C33 witness: kick() on a step that had both timed out and switched
\* support, the kick side not the next support side, gave Walking.
C33_Witness ==
    /\ transition.name = "kick"
    /\ transition.is_timeouted
    /\ transition.is_support_switched
    /\ transition.kick_side = transition.self.step.plan.support_side
    /\ mode.kind = "Walking"
    /\ mode.requested_step = "ZERO"

\* C34: a walk() or kick() that leaves Starting for Walking or Kicking
\* constructs the new Mode with the support side opposite to that of the
\* Starting step's plan.
C34_SupportSideAlternates ==
    [][((StartingCalled("walk") \/ StartingCalled("kick"))
            /\ mode'.kind \in {"Walking", "Kicking"})
          => mode'.support_side = Opposite(mode.step.plan.support_side)]_vars

\* C34 witness: walk() left a Starting step planned on the left support for
\* a Walking with the requested step on the right support.
C34_Witness ==
    /\ transition.name = "walk"
    /\ transition.self.step.plan.support_side = "Left"
    /\ mode.kind = "Walking"
    /\ mode.support_side = "Right"
    /\ mode.requested_step = "forward"


\* ------------------------------------------------------------------------
\* C37: in_grace_period never meets a detection time later than the cycle
\* start time: whatever the Perception instances and A interleave to, every
\* timestamp of the persistent and temporary perception inputs the nodes of
\* an iteration of A are given is not later than that iteration's cycle start
\* time. The cycle start time is an instant of the iteration's start, not
\* later than the now of post_setup, and consume() follows that now: a
\* snapshot finalized between the two is handed to the same iteration with a
\* later timestamp, so this does not hold.
C37_NoTimeRanBackwards ==
    rpc = "cycle" =>
        \A t \in (DOMAIN temporary) \cup (DOMAIN persistent) : t <= now

\* A's nodes are given a temporary entry stamped later than the iteration's
\* now.
C37_LaterThanNow ==
    /\ rpc = "cycle"
    /\ \E t \in DOMAIN temporary : t > now


\* ------------------------------------------------------------------------
\* The step is a call of RefereePoseDetectionFilter::cycle.
FilterCycled == cycleContext'.cycle_start_time # cycleContext.cycle_start_time

\* The timeline holds an Spl message of the player with
\* over_arms_pose_detected, stamped with the instant.
MessageDetection(timeline, player, instant) ==
    \E i \in DOMAIN timeline :
        /\ timeline[i].item.kind = "Spl"
        /\ timeline[i].item.over_arms_pose_detected
        /\ timeline[i].item.player_number = player
        /\ timeline[i].time = instant

\* The timeline holds an OverheadArms detection stamped with the instant and
\* none stamped later.
OwnDetection(timeline, instant) ==
    /\ \E i \in DOMAIN timeline :
           timeline[i].item = "OverheadArms" /\ timeline[i].time = instant
    /\ \A i \in DOMAIN timeline :
           timeline[i].item = "OverheadArms" => timeline[i].time <= instant

\* C35: a cycle() changes an entry of the persisted pose_detection_times only
\* to the instant of a persistent Spl message of that player with
\* over_arms_pose_detected, or, for the own player, to the instant of the
\* latest persistent own OverheadArms detection; the temporary perception
\* data changes nothing of it: the persisted state is what the same call
\* leaves with nothing temporary.
C35_PersistedOnlyFromPersistent ==
    [][FilterCycled =>
          /\ \A p \in PlayerNumbers :
                pose_detection_times'[p] # pose_detection_times[p] =>
                    \/ MessageDetection(cycleContext'.network_message.persistent, p,
                                        pose_detection_times'[p])
                    \/ /\ p = OwnPlayerNumber
                       /\ OwnDetection(cycleContext'.detected_referee_pose_type.persistent,
                                       pose_detection_times'[p])
          /\ pose_detection_times' =
                update(pose_detection_times,
                       [cycleContext'.detected_referee_pose_type EXCEPT !.temporary = <<>>],
                       OwnPlayerNumber,
                       [cycleContext'.network_message EXCEPT !.temporary = <<>>]).self]_vars

\* C35 witness: a temporary detection of a player made the returned copy
\* differ from the persisted state, which has no entry of that player, and
\* the cycle answered with it.
C35_Witness ==
    /\ cycleResult.kind = "ok"
    /\ cycleResult.initial_to_ready_trigger
    /\ \E p \in PlayerNumbers :
           /\ pose_detection_times[p] = NoTime
           /\ cycleResult.pose_detection_times[p] # NoTime
           /\ MessageDetection(cycleContext.network_message.temporary, p,
                               cycleResult.pose_detection_times[p])
    /\ \E p \in PlayerNumbers : pose_detection_times[p] # NoTime

\* The detection time of a player: the persisted entry overlaid with the
\* temporary detections.
OverlaidTime(p) ==
    LET own == cycleContext.detected_referee_pose_type.temporary
        messages == cycleContext.network_message.temporary
    IN IF p = OwnPlayerNumber /\ \E t \in FilterTimes : OwnDetection(own, t)
          THEN CHOOSE t \in FilterTimes : OwnDetection(own, t)
          ELSE IF \E t \in FilterTimes : MessageDetection(messages, p, t)
                  THEN CHOOSE t \in FilterTimes :
                          /\ MessageDetection(messages, p, t)
                          /\ \A u \in FilterTimes : MessageDetection(messages, p, u) => u <= t
                  ELSE pose_detection_times[p]

\* The players counted for the decision that are not penalized.
Unpenalized ==
    (IF cycleContext.game_controller_state.home
        THEN {"Three", "Four", "Five", "Seven"}
        ELSE {"One", "Two", "Six"}) \ cycleContext.game_controller_state.penalized

\* The least natural number not below fraction * number.
LeastNotBelow(number, fraction) ==
    CHOOSE k \in 0 .. Cardinality(PlayerNumbers) :
        /\ k * fraction[2] >= number * fraction[1]
        /\ \A j \in 0 .. (k - 1) : j * fraction[2] < number * fraction[1]

\* The players whose detection time lies less than the grace period before
\* the cycle start time.
DetectedInGrace ==
    {p \in PlayerNumbers :
        /\ OverlaidTime(p) # NoTime
        /\ cycleContext.cycle_start_time - OverlaidTime(p) < GracePeriod}

\* C36: a cycle() that returns gives initial_to_ready_trigger = true exactly
\* when the number of players detected within the grace period is at least
\* the fraction of the unpenalized counted players, rounded up; with no
\* counted player unpenalized it is true without any detection.
C36_TriggerDecision ==
    cycleResult.kind = "ok" =>
        /\ cycleResult.initial_to_ready_trigger
              = (Cardinality(DetectedInGrace)
                    >= LeastNotBelow(Cardinality(Unpenalized), cycleContext.fraction))
        /\ Unpenalized = {} => cycleResult.initial_to_ready_trigger

\* C36 witness: three of the counted players unpenalized, one player
\* detected within the grace period and another outside it: the answer is
\* false, one detection short of two.
C36_Witness ==
    /\ cycleResult.kind = "ok"
    /\ Cardinality(Unpenalized) = 3
    /\ Cardinality(DetectedInGrace) = 1
    /\ \E p \in PlayerNumbers : OverlaidTime(p) # NoTime /\ p \notin DetectedInGrace
    /\ ~cycleResult.initial_to_ready_trigger

\* With every counted player penalized the answer is true without a
\* detection.
C36_NoneUnpenalized ==
    /\ cycleResult.kind = "ok"
    /\ Unpenalized = {}
    /\ DetectedInGrace = {}
    /\ cycleResult.initial_to_ready_trigger


\* ------------------------------------------------------------------------
\* non_maximum_suppression has returned: poses is its result.
NmsReturned == nmsCall.called /\ candiate_pose = <<>>

\* The candidates that are not in the result.
NmsDropped ==
    {i \in DOMAIN nmsCall.candiate_pose : \A k \in DOMAIN poses : poses[k].id # i}

\* What the result of a call is, against its arguments.
NmsResult ==
    LET given == nmsCall.candiate_pose
        threshold == nmsCall.iou_threshold
    IN /\ \A k \in DOMAIN poses : poses[k] = given[poses[k].id]
       /\ \A k, l \in DOMAIN poses : k # l => poses[k].id # poses[l].id
       /\ \A k, l \in DOMAIN poses :
              k < l => poses[k].bounding_box.score >= poses[l].bounding_box.score
       /\ given # <<>> =>
              /\ poses # <<>>
              /\ \A i \in DOMAIN given :
                     poses[1].bounding_box.score >= given[i].bounding_box.score
       /\ \A k, l \in DOMAIN poses :
              k < l => IouBelow(poses[k].bounding_box, poses[l].bounding_box, threshold)
       /\ \A i \in NmsDropped :
              \E k \in DOMAIN poses :
                  /\ poses[k].bounding_box.score >= given[i].bounding_box.score
                  /\ ~IouBelow(poses[k].bounding_box, given[i].bounding_box, threshold)

\* C38: non_maximum_suppression terminates, every turn of its loop shortening
\* candiate_pose, and returns candidates only, each once, in non-increasing
\* order of score, the first of them a highest-scoring candidate, each with
\* an IoU below iou_threshold with every pose before it; a candidate is left
\* out only if its IoU with a pose of the result that scores at least as
\* high is not below iou_threshold.
C38_NonMaximumSuppression ==
    /\ [](NmsReturned => NmsResult)
    /\ [][candiate_pose # <<>> => Len(candiate_pose') < Len(candiate_pose)]_vars
    /\ nmsCall.called ~> NmsReturned

\* C38 witness: of three candidates, two of them with the highest score, the
\* call has returned two and dropped one.
C38_Witness ==
    /\ NmsReturned
    /\ Len(nmsCall.candiate_pose) = 3
    /\ Len(poses) = 2
    /\ Cardinality(NmsDropped) = 1
    /\ poses[1].bounding_box.score = poses[2].bounding_box.score
    /\ poses[1].id > poses[2].id

====
